---- MODULE Spec2Model ----
(***************************************************************************)
(* Model of the question-to-SQL application eniskorkut/t2s:                 *)
(*   - QueryService helpers (vanna-main-backend/services/query_service.py) *)
(*   - ChatService (vanna-main-backend/services/chat_service.py)           *)
(*   - generate_sql, streamed and batched (vanna-main-backend/main.py)     *)
(*   - the chat handlers of vanna-main-backend/api/chat.py, which await    *)
(*     what the methods of ChatService return, and those of src/api/       *)
(*     chat.py, which do not                                               *)
(*   - save_query and run_sql (src/api/queries.py), and the legacy         *)
(*     generate_sql (src/main.py)                                          *)
(* Text is modelled as a sequence of one-character strings, so that        *)
(* upper-casing, stripping, slicing and substring search are computed.     *)
(* A fixed message text of the source is one element holding the whole     *)
(* text, written in ASCII.  Requests are kept in their order of arrival:   *)
(* a streamed answer stays in progress while later requests are served.    *)
(***************************************************************************)
EXTENDS Naturals, Integers, Sequences, FiniteSets, TLC

-----------------------------------------------------------------------------
(* Python values *)

None == [tag |-> "None"]

Some(v) == [tag |-> "Some", val |-> v]

\* a call that ended in an exception
Raised == [tag |-> "Raised"]

\* the truth value of an optional text: None and the empty text are false
Truthy(x) == x /= None /\ x /= Raised /\ x.val /= <<>>

Min(S) == CHOOSE x \in S : \A y \in S : x <= y

-----------------------------------------------------------------------------
(* The sessions and the deployment *)

VARIABLES
  chat_sessions,     \* the chat_sessions table: the columns id and user_id (and is_pinned)
  foreign_keys       \* whether the SQLite build enforces foreign keys on a new connection

sessionVars == <<chat_sessions, foreign_keys>>

-----------------------------------------------------------------------------
(* Python str operations on sequences of characters *)

\* characters outside the printable ASCII range are named after their code points
DOTLESS_I == "U+0131"

S_CEDILLA == "U+015F"

CAP_S_CEDILLA == "U+015E"

C_CEDILLA == "U+00E7"

CAP_C_CEDILLA == "U+00C7"

E_ACUTE == "U+00E9"

CAP_E_ACUTE == "U+00C9"

SHARP_S == "U+00DF"

LONG_S == "U+017F"

CAP_DOTTED_I == "U+0130"

COMBINING_DOT == "U+0307"

KELVIN == "U+212A"

CAP_SIGMA == "U+03A3"

FINAL_SIGMA == "U+03C2"

\* the backquote character (the lexer admits none inside a string literal)
BT == "BACKQUOTE"

\* The characters of the model, with what CPython 3.11 (Unicode 14) makes of each:
\*   upper, lower   str.upper() and str.lower() of the character alone
\*   fold           the character it is compared as under re.IGNORECASE
\*   word           whether the regex class \w of a str pattern matches it
\*   cased          whether it is cased and not case-ignorable
\*   ignorable      whether it is case-ignorable
\* The characters are ASCII, Latin-1, Latin Extended-A, -B and Additional, Greek,
\* Cyrillic, the Arabic-Indic digits, general punctuation, super- and subscripts,
\* letterlike symbols, Roman numerals, the Latin ligatures, the fullwidth letters and
\* digits, a Han and a Hiragana character, every white-space character, and whatever
\* str.upper() and str.lower() make of these.  A
\* text of the model holds these characters only: a character outside them has no row.

\* the cased letters that str.upper() and str.lower() take to one another one for one:
\* the lower-case letters, and at the same index the upper-case ones; first the letters
\* of ASCII, then the others
LowerLetters ==
  <<"a", "b", "c", "d", "e", "f", "g", "h", "i", "j", "k", "l", "m", "n", "o", "p", "q",
    "r", "s", "t", "u", "v", "w", "x", "y", "z">>

UpperLetters ==
  <<"A", "B", "C", "D", "E", "F", "G", "H", "I", "J", "K", "L", "M", "N", "O", "P", "Q",
    "R", "S", "T", "U", "V", "W", "X", "Y", "Z">>

LowerOthers ==
  <<"U+00E0", "U+00E1", "U+00E2", "U+00E3", "U+00E4", "U+00E5", "U+00E6", "U+00E7",
    "U+00E8", "U+00E9", "U+00EA", "U+00EB", "U+00EC", "U+00ED", "U+00EE", "U+00EF",
    "U+00F0", "U+00F1", "U+00F2", "U+00F3", "U+00F4", "U+00F5", "U+00F6", "U+00F8",
    "U+00F9", "U+00FA", "U+00FB", "U+00FC", "U+00FD", "U+00FE", "U+00FF", "U+0101",
    "U+0103", "U+0105", "U+0107", "U+0109", "U+010B", "U+010D", "U+010F", "U+0111",
    "U+0113", "U+0115", "U+0117", "U+0119", "U+011B", "U+011D", "U+011F", "U+0121",
    "U+0123", "U+0125", "U+0127", "U+0129", "U+012B", "U+012D", "U+012F", "U+0133",
    "U+0135", "U+0137", "U+013A", "U+013C", "U+013E", "U+0140", "U+0142", "U+0144",
    "U+0146", "U+0148", "U+014B", "U+014D", "U+014F", "U+0151", "U+0153", "U+0155",
    "U+0157", "U+0159", "U+015B", "U+015D", "U+015F", "U+0161", "U+0163", "U+0165",
    "U+0167", "U+0169", "U+016B", "U+016D", "U+016F", "U+0171", "U+0173", "U+0175",
    "U+0177", "U+017A", "U+017C", "U+017E", "U+0180", "U+0183", "U+0185", "U+0188",
    "U+018C", "U+0192", "U+0195", "U+0199", "U+019A", "U+019E", "U+01A1", "U+01A3",
    "U+01A5", "U+01A8", "U+01AD", "U+01B0", "U+01B4", "U+01B6", "U+01B9", "U+01BD",
    "U+01BF", "U+01C6", "U+01C9", "U+01CC", "U+01CE", "U+01D0", "U+01D2", "U+01D4",
    "U+01D6", "U+01D8", "U+01DA", "U+01DC", "U+01DD", "U+01DF", "U+01E1", "U+01E3",
    "U+01E5", "U+01E7", "U+01E9", "U+01EB", "U+01ED", "U+01EF", "U+01F3", "U+01F5",
    "U+01F9", "U+01FB", "U+01FD", "U+01FF", "U+0201", "U+0203", "U+0205", "U+0207",
    "U+0209", "U+020B", "U+020D", "U+020F", "U+0211", "U+0213", "U+0215", "U+0217",
    "U+0219", "U+021B", "U+021D", "U+021F", "U+0223", "U+0225", "U+0227", "U+0229",
    "U+022B", "U+022D", "U+022F", "U+0231", "U+0233", "U+023C", "U+023F", "U+0240",
    "U+0242", "U+0247", "U+0249", "U+024B", "U+024D", "U+024F", "U+0253", "U+0254",
    "U+0256", "U+0257", "U+0259", "U+025B", "U+0260", "U+0263", "U+0268", "U+0269",
    "U+026F", "U+0272", "U+0275", "U+0280", "U+0283", "U+0288", "U+0289", "U+028A",
    "U+028B", "U+028C", "U+0292", "U+0371", "U+0373", "U+0377", "U+037B", "U+037C",
    "U+037D", "U+03AC", "U+03AD", "U+03AE", "U+03AF", "U+03B1", "U+03B2", "U+03B3",
    "U+03B4", "U+03B5", "U+03B6", "U+03B7", "U+03B8", "U+03B9", "U+03BA", "U+03BB",
    "U+03BC", "U+03BD", "U+03BE", "U+03BF", "U+03C0", "U+03C1", "U+03C3", "U+03C4",
    "U+03C5", "U+03C6", "U+03C7", "U+03C8", "U+03C9", "U+03CA", "U+03CB", "U+03CC",
    "U+03CD", "U+03CE", "U+03D7", "U+03D9", "U+03DB", "U+03DD", "U+03DF", "U+03E1",
    "U+03E3", "U+03E5", "U+03E7", "U+03E9", "U+03EB", "U+03ED", "U+03EF", "U+03F2",
    "U+03F3", "U+03F8", "U+03FB", "U+0430", "U+0431", "U+0432", "U+0433", "U+0434",
    "U+0435", "U+0436", "U+0437", "U+0438", "U+0439", "U+043A", "U+043B", "U+043C",
    "U+043D", "U+043E", "U+043F", "U+0440", "U+0441", "U+0442", "U+0443", "U+0444",
    "U+0445", "U+0446", "U+0447", "U+0448", "U+0449", "U+044A", "U+044B", "U+044C",
    "U+044D", "U+044E", "U+044F", "U+0450", "U+0451", "U+0452", "U+0453", "U+0454",
    "U+0455", "U+0456", "U+0457", "U+0458", "U+0459", "U+045A", "U+045B", "U+045C",
    "U+045D", "U+045E", "U+045F", "U+0461", "U+0463", "U+0465", "U+0467", "U+0469",
    "U+046B", "U+046D", "U+046F", "U+0471", "U+0473", "U+0475", "U+0477", "U+0479",
    "U+047B", "U+047D", "U+047F", "U+0481", "U+048B", "U+048D", "U+048F", "U+0491",
    "U+0493", "U+0495", "U+0497", "U+0499", "U+049B", "U+049D", "U+049F", "U+04A1",
    "U+04A3", "U+04A5", "U+04A7", "U+04A9", "U+04AB", "U+04AD", "U+04AF", "U+04B1",
    "U+04B3", "U+04B5", "U+04B7", "U+04B9", "U+04BB", "U+04BD", "U+04BF", "U+04C2",
    "U+04C4", "U+04C6", "U+04C8", "U+04CA", "U+04CC", "U+04CE", "U+04CF", "U+04D1",
    "U+04D3", "U+04D5", "U+04D7", "U+04D9", "U+04DB", "U+04DD", "U+04DF", "U+04E1",
    "U+04E3", "U+04E5", "U+04E7", "U+04E9", "U+04EB", "U+04ED", "U+04EF", "U+04F1",
    "U+04F3", "U+04F5", "U+04F7", "U+04F9", "U+04FB", "U+04FD", "U+04FF", "U+1E01",
    "U+1E03", "U+1E05", "U+1E07", "U+1E09", "U+1E0B", "U+1E0D", "U+1E0F", "U+1E11",
    "U+1E13", "U+1E15", "U+1E17", "U+1E19", "U+1E1B", "U+1E1D", "U+1E1F", "U+1E21",
    "U+1E23", "U+1E25", "U+1E27", "U+1E29", "U+1E2B", "U+1E2D", "U+1E2F", "U+1E31",
    "U+1E33", "U+1E35", "U+1E37", "U+1E39", "U+1E3B", "U+1E3D", "U+1E3F", "U+1E41",
    "U+1E43", "U+1E45", "U+1E47", "U+1E49", "U+1E4B", "U+1E4D", "U+1E4F", "U+1E51",
    "U+1E53", "U+1E55", "U+1E57", "U+1E59", "U+1E5B", "U+1E5D", "U+1E5F", "U+1E61",
    "U+1E63", "U+1E65", "U+1E67", "U+1E69", "U+1E6B", "U+1E6D", "U+1E6F", "U+1E71",
    "U+1E73", "U+1E75", "U+1E77", "U+1E79", "U+1E7B", "U+1E7D", "U+1E7F", "U+1E81",
    "U+1E83", "U+1E85", "U+1E87", "U+1E89", "U+1E8B", "U+1E8D", "U+1E8F", "U+1E91",
    "U+1E93", "U+1E95", "U+1EA1", "U+1EA3", "U+1EA5", "U+1EA7", "U+1EA9", "U+1EAB",
    "U+1EAD", "U+1EAF", "U+1EB1", "U+1EB3", "U+1EB5", "U+1EB7", "U+1EB9", "U+1EBB",
    "U+1EBD", "U+1EBF", "U+1EC1", "U+1EC3", "U+1EC5", "U+1EC7", "U+1EC9", "U+1ECB",
    "U+1ECD", "U+1ECF", "U+1ED1", "U+1ED3", "U+1ED5", "U+1ED7", "U+1ED9", "U+1EDB",
    "U+1EDD", "U+1EDF", "U+1EE1", "U+1EE3", "U+1EE5", "U+1EE7", "U+1EE9", "U+1EEB",
    "U+1EED", "U+1EEF", "U+1EF1", "U+1EF3", "U+1EF5", "U+1EF7", "U+1EF9", "U+1EFB",
    "U+1EFD", "U+1EFF", "U+214E", "U+2170", "U+2171", "U+2172", "U+2173", "U+2174",
    "U+2175", "U+2176", "U+2177", "U+2178", "U+2179", "U+217A", "U+217B", "U+217C",
    "U+217D", "U+217E", "U+217F", "U+2C65", "U+2C66", "U+FF41", "U+FF42", "U+FF43",
    "U+FF44", "U+FF45", "U+FF46", "U+FF47", "U+FF48", "U+FF49", "U+FF4A", "U+FF4B",
    "U+FF4C", "U+FF4D", "U+FF4E", "U+FF4F", "U+FF50", "U+FF51", "U+FF52", "U+FF53",
    "U+FF54", "U+FF55", "U+FF56", "U+FF57", "U+FF58", "U+FF59", "U+FF5A">>

UpperOthers ==
  <<"U+00C0", "U+00C1", "U+00C2", "U+00C3", "U+00C4", "U+00C5", "U+00C6", "U+00C7",
    "U+00C8", "U+00C9", "U+00CA", "U+00CB", "U+00CC", "U+00CD", "U+00CE", "U+00CF",
    "U+00D0", "U+00D1", "U+00D2", "U+00D3", "U+00D4", "U+00D5", "U+00D6", "U+00D8",
    "U+00D9", "U+00DA", "U+00DB", "U+00DC", "U+00DD", "U+00DE", "U+0178", "U+0100",
    "U+0102", "U+0104", "U+0106", "U+0108", "U+010A", "U+010C", "U+010E", "U+0110",
    "U+0112", "U+0114", "U+0116", "U+0118", "U+011A", "U+011C", "U+011E", "U+0120",
    "U+0122", "U+0124", "U+0126", "U+0128", "U+012A", "U+012C", "U+012E", "U+0132",
    "U+0134", "U+0136", "U+0139", "U+013B", "U+013D", "U+013F", "U+0141", "U+0143",
    "U+0145", "U+0147", "U+014A", "U+014C", "U+014E", "U+0150", "U+0152", "U+0154",
    "U+0156", "U+0158", "U+015A", "U+015C", "U+015E", "U+0160", "U+0162", "U+0164",
    "U+0166", "U+0168", "U+016A", "U+016C", "U+016E", "U+0170", "U+0172", "U+0174",
    "U+0176", "U+0179", "U+017B", "U+017D", "U+0243", "U+0182", "U+0184", "U+0187",
    "U+018B", "U+0191", "U+01F6", "U+0198", "U+023D", "U+0220", "U+01A0", "U+01A2",
    "U+01A4", "U+01A7", "U+01AC", "U+01AF", "U+01B3", "U+01B5", "U+01B8", "U+01BC",
    "U+01F7", "U+01C4", "U+01C7", "U+01CA", "U+01CD", "U+01CF", "U+01D1", "U+01D3",
    "U+01D5", "U+01D7", "U+01D9", "U+01DB", "U+018E", "U+01DE", "U+01E0", "U+01E2",
    "U+01E4", "U+01E6", "U+01E8", "U+01EA", "U+01EC", "U+01EE", "U+01F1", "U+01F4",
    "U+01F8", "U+01FA", "U+01FC", "U+01FE", "U+0200", "U+0202", "U+0204", "U+0206",
    "U+0208", "U+020A", "U+020C", "U+020E", "U+0210", "U+0212", "U+0214", "U+0216",
    "U+0218", "U+021A", "U+021C", "U+021E", "U+0222", "U+0224", "U+0226", "U+0228",
    "U+022A", "U+022C", "U+022E", "U+0230", "U+0232", "U+023B", "U+2C7E", "U+2C7F",
    "U+0241", "U+0246", "U+0248", "U+024A", "U+024C", "U+024E", "U+0181", "U+0186",
    "U+0189", "U+018A", "U+018F", "U+0190", "U+0193", "U+0194", "U+0197", "U+0196",
    "U+019C", "U+019D", "U+019F", "U+01A6", "U+01A9", "U+01AE", "U+0244", "U+01B1",
    "U+01B2", "U+0245", "U+01B7", "U+0370", "U+0372", "U+0376", "U+03FD", "U+03FE",
    "U+03FF", "U+0386", "U+0388", "U+0389", "U+038A", "U+0391", "U+0392", "U+0393",
    "U+0394", "U+0395", "U+0396", "U+0397", "U+0398", "U+0399", "U+039A", "U+039B",
    "U+039C", "U+039D", "U+039E", "U+039F", "U+03A0", "U+03A1", "U+03A3", "U+03A4",
    "U+03A5", "U+03A6", "U+03A7", "U+03A8", "U+03A9", "U+03AA", "U+03AB", "U+038C",
    "U+038E", "U+038F", "U+03CF", "U+03D8", "U+03DA", "U+03DC", "U+03DE", "U+03E0",
    "U+03E2", "U+03E4", "U+03E6", "U+03E8", "U+03EA", "U+03EC", "U+03EE", "U+03F9",
    "U+037F", "U+03F7", "U+03FA", "U+0410", "U+0411", "U+0412", "U+0413", "U+0414",
    "U+0415", "U+0416", "U+0417", "U+0418", "U+0419", "U+041A", "U+041B", "U+041C",
    "U+041D", "U+041E", "U+041F", "U+0420", "U+0421", "U+0422", "U+0423", "U+0424",
    "U+0425", "U+0426", "U+0427", "U+0428", "U+0429", "U+042A", "U+042B", "U+042C",
    "U+042D", "U+042E", "U+042F", "U+0400", "U+0401", "U+0402", "U+0403", "U+0404",
    "U+0405", "U+0406", "U+0407", "U+0408", "U+0409", "U+040A", "U+040B", "U+040C",
    "U+040D", "U+040E", "U+040F", "U+0460", "U+0462", "U+0464", "U+0466", "U+0468",
    "U+046A", "U+046C", "U+046E", "U+0470", "U+0472", "U+0474", "U+0476", "U+0478",
    "U+047A", "U+047C", "U+047E", "U+0480", "U+048A", "U+048C", "U+048E", "U+0490",
    "U+0492", "U+0494", "U+0496", "U+0498", "U+049A", "U+049C", "U+049E", "U+04A0",
    "U+04A2", "U+04A4", "U+04A6", "U+04A8", "U+04AA", "U+04AC", "U+04AE", "U+04B0",
    "U+04B2", "U+04B4", "U+04B6", "U+04B8", "U+04BA", "U+04BC", "U+04BE", "U+04C1",
    "U+04C3", "U+04C5", "U+04C7", "U+04C9", "U+04CB", "U+04CD", "U+04C0", "U+04D0",
    "U+04D2", "U+04D4", "U+04D6", "U+04D8", "U+04DA", "U+04DC", "U+04DE", "U+04E0",
    "U+04E2", "U+04E4", "U+04E6", "U+04E8", "U+04EA", "U+04EC", "U+04EE", "U+04F0",
    "U+04F2", "U+04F4", "U+04F6", "U+04F8", "U+04FA", "U+04FC", "U+04FE", "U+1E00",
    "U+1E02", "U+1E04", "U+1E06", "U+1E08", "U+1E0A", "U+1E0C", "U+1E0E", "U+1E10",
    "U+1E12", "U+1E14", "U+1E16", "U+1E18", "U+1E1A", "U+1E1C", "U+1E1E", "U+1E20",
    "U+1E22", "U+1E24", "U+1E26", "U+1E28", "U+1E2A", "U+1E2C", "U+1E2E", "U+1E30",
    "U+1E32", "U+1E34", "U+1E36", "U+1E38", "U+1E3A", "U+1E3C", "U+1E3E", "U+1E40",
    "U+1E42", "U+1E44", "U+1E46", "U+1E48", "U+1E4A", "U+1E4C", "U+1E4E", "U+1E50",
    "U+1E52", "U+1E54", "U+1E56", "U+1E58", "U+1E5A", "U+1E5C", "U+1E5E", "U+1E60",
    "U+1E62", "U+1E64", "U+1E66", "U+1E68", "U+1E6A", "U+1E6C", "U+1E6E", "U+1E70",
    "U+1E72", "U+1E74", "U+1E76", "U+1E78", "U+1E7A", "U+1E7C", "U+1E7E", "U+1E80",
    "U+1E82", "U+1E84", "U+1E86", "U+1E88", "U+1E8A", "U+1E8C", "U+1E8E", "U+1E90",
    "U+1E92", "U+1E94", "U+1EA0", "U+1EA2", "U+1EA4", "U+1EA6", "U+1EA8", "U+1EAA",
    "U+1EAC", "U+1EAE", "U+1EB0", "U+1EB2", "U+1EB4", "U+1EB6", "U+1EB8", "U+1EBA",
    "U+1EBC", "U+1EBE", "U+1EC0", "U+1EC2", "U+1EC4", "U+1EC6", "U+1EC8", "U+1ECA",
    "U+1ECC", "U+1ECE", "U+1ED0", "U+1ED2", "U+1ED4", "U+1ED6", "U+1ED8", "U+1EDA",
    "U+1EDC", "U+1EDE", "U+1EE0", "U+1EE2", "U+1EE4", "U+1EE6", "U+1EE8", "U+1EEA",
    "U+1EEC", "U+1EEE", "U+1EF0", "U+1EF2", "U+1EF4", "U+1EF6", "U+1EF8", "U+1EFA",
    "U+1EFC", "U+1EFE", "U+2132", "U+2160", "U+2161", "U+2162", "U+2163", "U+2164",
    "U+2165", "U+2166", "U+2167", "U+2168", "U+2169", "U+216A", "U+216B", "U+216C",
    "U+216D", "U+216E", "U+216F", "U+023A", "U+023E", "U+FF21", "U+FF22", "U+FF23",
    "U+FF24", "U+FF25", "U+FF26", "U+FF27", "U+FF28", "U+FF29", "U+FF2A", "U+FF2B",
    "U+FF2C", "U+FF2D", "U+FF2E", "U+FF2F", "U+FF30", "U+FF31", "U+FF32", "U+FF33",
    "U+FF34", "U+FF35", "U+FF36", "U+FF37", "U+FF38", "U+FF39", "U+FF3A">>

\* the characters without case: str.upper() and str.lower() leave them as they are
Caseless ==
  {"U+0000", "U+0001", "U+0002", "U+0003", "U+0004", "U+0005", "U+0006", "U+0007",
   "U+0008", "\t", "\n", "U+000B", "U+000C", "\r", "U+000E", "U+000F", "U+0010",
   "U+0011", "U+0012", "U+0013", "U+0014", "U+0015", "U+0016", "U+0017", "U+0018",
   "U+0019", "U+001A", "U+001B", "U+001C", "U+001D", "U+001E", "U+001F", " ", "!", "\"",
   "#", "$", "%", "&", "'", "(", ")", "*", "+", ",", "-", ".", "/", "0", "1", "2", "3",
   "4", "5", "6", "7", "8", "9", ":", ";", "<", "=", ">", "?", "@", "[", "\\", "]", "^",
   "_", BT, "{", "|", "}", "~", "U+007F", "U+0080", "U+0081", "U+0082", "U+0083",
   "U+0084", "U+0085", "U+0086", "U+0087", "U+0088", "U+0089", "U+008A", "U+008B",
   "U+008C", "U+008D", "U+008E", "U+008F", "U+0090", "U+0091", "U+0092", "U+0093",
   "U+0094", "U+0095", "U+0096", "U+0097", "U+0098", "U+0099", "U+009A", "U+009B",
   "U+009C", "U+009D", "U+009E", "U+009F", "U+00A0", "U+00A1", "U+00A2", "U+00A3",
   "U+00A4", "U+00A5", "U+00A6", "U+00A7", "U+00A8", "U+00A9", "U+00AB", "U+00AC",
   "U+00AD", "U+00AE", "U+00AF", "U+00B0", "U+00B1", "U+00B2", "U+00B3", "U+00B4",
   "U+00B6", "U+00B7", "U+00B8", "U+00B9", "U+00BB", "U+00BC", "U+00BD", "U+00BE",
   "U+00BF", "U+00D7", "U+00F7", "U+01BB", "U+01C0", "U+01C1", "U+01C2", "U+01C3",
   "U+02BC", "U+02BE", "U+0301", "U+0307", "U+0308", "U+030A", "U+030C", "U+0331",
   "U+0374", "U+0375", "U+037A", "U+037E", "U+0384", "U+0385", "U+0387", "U+03F6",
   "U+0482", "U+0483", "U+0484", "U+0485", "U+0486", "U+0487", "U+0488", "U+0489",
   "U+0660", "U+0661", "U+0662", "U+0663", "U+0664", "U+0665", "U+0666", "U+0667",
   "U+0668", "U+0669", "U+1680", "U+2000", "U+2001", "U+2002", "U+2003", "U+2004",
   "U+2005", "U+2006", "U+2007", "U+2008", "U+2009", "U+200A", "U+200B", "U+200C",
   "U+200D", "U+200E", "U+200F", "U+2010", "U+2011", "U+2012", "U+2013", "U+2014",
   "U+2015", "U+2016", "U+2017", "U+2018", "U+2019", "U+201A", "U+201B", "U+201C",
   "U+201D", "U+201E", "U+201F", "U+2020", "U+2021", "U+2022", "U+2023", "U+2024",
   "U+2025", "U+2026", "U+2027", "U+2028", "U+2029", "U+202A", "U+202B", "U+202C",
   "U+202D", "U+202E", "U+202F", "U+2030", "U+2031", "U+2032", "U+2033", "U+2034",
   "U+2035", "U+2036", "U+2037", "U+2038", "U+2039", "U+203A", "U+203B", "U+203C",
   "U+203D", "U+203E", "U+203F", "U+2040", "U+2041", "U+2042", "U+2043", "U+2044",
   "U+2045", "U+2046", "U+2047", "U+2048", "U+2049", "U+204A", "U+204B", "U+204C",
   "U+204D", "U+204E", "U+204F", "U+2050", "U+2051", "U+2052", "U+2053", "U+2054",
   "U+2055", "U+2056", "U+2057", "U+2058", "U+2059", "U+205A", "U+205B", "U+205C",
   "U+205D", "U+205E", "U+205F", "U+2060", "U+2061", "U+2062", "U+2063", "U+2064",
   "U+2066", "U+2067", "U+2068", "U+2069", "U+206A", "U+206B", "U+206C", "U+206D",
   "U+206E", "U+206F", "U+2070", "U+2071", "U+2074", "U+2075", "U+2076", "U+2077",
   "U+2078", "U+2079", "U+207A", "U+207B", "U+207C", "U+207D", "U+207E", "U+207F",
   "U+2080", "U+2081", "U+2082", "U+2083", "U+2084", "U+2085", "U+2086", "U+2087",
   "U+2088", "U+2089", "U+208A", "U+208B", "U+208C", "U+208D", "U+208E", "U+2090",
   "U+2091", "U+2092", "U+2093", "U+2094", "U+2095", "U+2096", "U+2097", "U+2098",
   "U+2099", "U+209A", "U+209B", "U+209C", "U+2100", "U+2101", "U+2103", "U+2104",
   "U+2105", "U+2106", "U+2108", "U+2109", "U+2114", "U+2116", "U+2117", "U+2118",
   "U+211E", "U+211F", "U+2120", "U+2121", "U+2122", "U+2123", "U+2125", "U+2127",
   "U+2129", "U+212E", "U+2135", "U+2136", "U+2137", "U+2138", "U+213A", "U+213B",
   "U+2140", "U+2141", "U+2142", "U+2143", "U+2144", "U+214A", "U+214B", "U+214C",
   "U+214D", "U+214F", "U+3000", "U+3042", "U+4E2D", "U+FF10", "U+FF11", "U+FF12",
   "U+FF13", "U+FF14", "U+FF15", "U+FF16", "U+FF17", "U+FF18", "U+FF19", "U+FF1A",
   "U+FF1B", "U+FF1C", "U+FF1D", "U+FF1E", "U+FF1F", "U+FF20", "U+FF3B", "U+FF3C",
   "U+FF3D", "U+FF3E", "U+FF3F", "U+FF40"}

\* the ones of them \w matches
CaselessWord ==
  {"0", "1", "2", "3", "4", "5", "6", "7", "8", "9", "_", "U+00B2", "U+00B3", "U+00B9",
   "U+00BC", "U+00BD", "U+00BE", "U+01BB", "U+01C0", "U+01C1", "U+01C2", "U+01C3",
   "U+02BC", "U+02BE", "U+0374", "U+037A", "U+0660", "U+0661", "U+0662", "U+0663",
   "U+0664", "U+0665", "U+0666", "U+0667", "U+0668", "U+0669", "U+2070", "U+2071",
   "U+2074", "U+2075", "U+2076", "U+2077", "U+2078", "U+2079", "U+207F", "U+2080",
   "U+2081", "U+2082", "U+2083", "U+2084", "U+2085", "U+2086", "U+2087", "U+2088",
   "U+2089", "U+2090", "U+2091", "U+2092", "U+2093", "U+2094", "U+2095", "U+2096",
   "U+2097", "U+2098", "U+2099", "U+209A", "U+209B", "U+209C", "U+2135", "U+2136",
   "U+2137", "U+2138", "U+3042", "U+4E2D", "U+FF10", "U+FF11", "U+FF12", "U+FF13",
   "U+FF14", "U+FF15", "U+FF16", "U+FF17", "U+FF18", "U+FF19"}

\* the ones of them that are case-ignorable
CaselessIgnorable ==
  {"'", ".", ":", "^", BT, "U+00A8", "U+00AD", "U+00AF", "U+00B4", "U+00B7", "U+00B8",
   "U+02BC", "U+02BE", "U+0301", "U+0307", "U+0308", "U+030A", "U+030C", "U+0331",
   "U+0374", "U+0375", "U+037A", "U+0384", "U+0385", "U+0387", "U+0483", "U+0484",
   "U+0485", "U+0486", "U+0487", "U+0488", "U+0489", "U+200B", "U+200C", "U+200D",
   "U+200E", "U+200F", "U+2018", "U+2019", "U+2024", "U+2027", "U+202A", "U+202B",
   "U+202C", "U+202D", "U+202E", "U+2060", "U+2061", "U+2062", "U+2063", "U+2064",
   "U+2066", "U+2067", "U+2068", "U+2069", "U+206A", "U+206B", "U+206C", "U+206D",
   "U+206E", "U+206F", "U+2071", "U+207F", "U+2090", "U+2091", "U+2092", "U+2093",
   "U+2094", "U+2095", "U+2096", "U+2097", "U+2098", "U+2099", "U+209A", "U+209B",
   "U+209C", "U+FF1A", "U+FF3E", "U+FF40"}

\* the other cased letters: the character, its str.upper(), its str.lower() and the
\* character it is compared as under re.IGNORECASE
CasedRows ==
  {<<"U+00AA", <<"U+00AA">>, <<"U+00AA">>, "U+00AA">>,
   <<"U+00B5", <<"U+039C">>, <<"U+00B5">>, "U+00B5">>,
   <<"U+00BA", <<"U+00BA">>, <<"U+00BA">>, "U+00BA">>,
   <<"U+00DF", <<"S", "S">>, <<"U+00DF">>, "U+00DF">>,
   <<"U+0130", <<"U+0130">>, <<"i", "U+0307">>, "i">>,
   <<"U+0131", <<"I">>, <<"U+0131">>, "i">>,
   <<"U+0138", <<"U+0138">>, <<"U+0138">>, "U+0138">>,
   <<"U+0149", <<"U+02BC", "N">>, <<"U+0149">>, "U+0149">>,
   <<"U+017F", <<"S">>, <<"U+017F">>, "s">>,
   <<"U+018D", <<"U+018D">>, <<"U+018D">>, "U+018D">>,
   <<"U+019B", <<"U+019B">>, <<"U+019B">>, "U+019B">>,
   <<"U+01AA", <<"U+01AA">>, <<"U+01AA">>, "U+01AA">>,
   <<"U+01AB", <<"U+01AB">>, <<"U+01AB">>, "U+01AB">>,
   <<"U+01BA", <<"U+01BA">>, <<"U+01BA">>, "U+01BA">>,
   <<"U+01BE", <<"U+01BE">>, <<"U+01BE">>, "U+01BE">>,
   <<"U+01C5", <<"U+01C4">>, <<"U+01C6">>, "U+01C6">>,
   <<"U+01C8", <<"U+01C7">>, <<"U+01C9">>, "U+01C9">>,
   <<"U+01CB", <<"U+01CA">>, <<"U+01CC">>, "U+01CC">>,
   <<"U+01F0", <<"J", "U+030C">>, <<"U+01F0">>, "U+01F0">>,
   <<"U+01F2", <<"U+01F1">>, <<"U+01F3">>, "U+01F3">>,
   <<"U+0221", <<"U+0221">>, <<"U+0221">>, "U+0221">>,
   <<"U+0234", <<"U+0234">>, <<"U+0234">>, "U+0234">>,
   <<"U+0235", <<"U+0235">>, <<"U+0235">>, "U+0235">>,
   <<"U+0236", <<"U+0236">>, <<"U+0236">>, "U+0236">>,
   <<"U+0237", <<"U+0237">>, <<"U+0237">>, "U+0237">>,
   <<"U+0238", <<"U+0238">>, <<"U+0238">>, "U+0238">>,
   <<"U+0239", <<"U+0239">>, <<"U+0239">>, "U+0239">>,
   <<"U+0390", <<"U+0399", "U+0308", "U+0301">>, <<"U+0390">>, "U+0390">>,
   <<"U+03B0", <<"U+03A5", "U+0308", "U+0301">>, <<"U+03B0">>, "U+03B0">>,
   <<"U+03C2", <<"U+03A3">>, <<"U+03C2">>, "U+03C2">>,
   <<"U+03D0", <<"U+0392">>, <<"U+03D0">>, "U+03D0">>,
   <<"U+03D1", <<"U+0398">>, <<"U+03D1">>, "U+03D1">>,
   <<"U+03D2", <<"U+03D2">>, <<"U+03D2">>, "U+03D2">>,
   <<"U+03D3", <<"U+03D3">>, <<"U+03D3">>, "U+03D3">>,
   <<"U+03D4", <<"U+03D4">>, <<"U+03D4">>, "U+03D4">>,
   <<"U+03D5", <<"U+03A6">>, <<"U+03D5">>, "U+03D5">>,
   <<"U+03D6", <<"U+03A0">>, <<"U+03D6">>, "U+03D6">>,
   <<"U+03F0", <<"U+039A">>, <<"U+03F0">>, "U+03F0">>,
   <<"U+03F1", <<"U+03A1">>, <<"U+03F1">>, "U+03F1">>,
   <<"U+03F4", <<"U+03F4">>, <<"U+03B8">>, "U+03B8">>,
   <<"U+03F5", <<"U+0395">>, <<"U+03F5">>, "U+03F5">>,
   <<"U+03FC", <<"U+03FC">>, <<"U+03FC">>, "U+03FC">>,
   <<"U+1E96", <<"H", "U+0331">>, <<"U+1E96">>, "U+1E96">>,
   <<"U+1E97", <<"T", "U+0308">>, <<"U+1E97">>, "U+1E97">>,
   <<"U+1E98", <<"W", "U+030A">>, <<"U+1E98">>, "U+1E98">>,
   <<"U+1E99", <<"Y", "U+030A">>, <<"U+1E99">>, "U+1E99">>,
   <<"U+1E9A", <<"A", "U+02BE">>, <<"U+1E9A">>, "U+1E9A">>,
   <<"U+1E9B", <<"U+1E60">>, <<"U+1E9B">>, "U+1E9B">>,
   <<"U+1E9C", <<"U+1E9C">>, <<"U+1E9C">>, "U+1E9C">>,
   <<"U+1E9D", <<"U+1E9D">>, <<"U+1E9D">>, "U+1E9D">>,
   <<"U+1E9E", <<"U+1E9E">>, <<"U+00DF">>, "U+00DF">>,
   <<"U+1E9F", <<"U+1E9F">>, <<"U+1E9F">>, "U+1E9F">>,
   <<"U+2102", <<"U+2102">>, <<"U+2102">>, "U+2102">>,
   <<"U+2107", <<"U+2107">>, <<"U+2107">>, "U+2107">>,
   <<"U+210A", <<"U+210A">>, <<"U+210A">>, "U+210A">>,
   <<"U+210B", <<"U+210B">>, <<"U+210B">>, "U+210B">>,
   <<"U+210C", <<"U+210C">>, <<"U+210C">>, "U+210C">>,
   <<"U+210D", <<"U+210D">>, <<"U+210D">>, "U+210D">>,
   <<"U+210E", <<"U+210E">>, <<"U+210E">>, "U+210E">>,
   <<"U+210F", <<"U+210F">>, <<"U+210F">>, "U+210F">>,
   <<"U+2110", <<"U+2110">>, <<"U+2110">>, "U+2110">>,
   <<"U+2111", <<"U+2111">>, <<"U+2111">>, "U+2111">>,
   <<"U+2112", <<"U+2112">>, <<"U+2112">>, "U+2112">>,
   <<"U+2113", <<"U+2113">>, <<"U+2113">>, "U+2113">>,
   <<"U+2115", <<"U+2115">>, <<"U+2115">>, "U+2115">>,
   <<"U+2119", <<"U+2119">>, <<"U+2119">>, "U+2119">>,
   <<"U+211A", <<"U+211A">>, <<"U+211A">>, "U+211A">>,
   <<"U+211B", <<"U+211B">>, <<"U+211B">>, "U+211B">>,
   <<"U+211C", <<"U+211C">>, <<"U+211C">>, "U+211C">>,
   <<"U+211D", <<"U+211D">>, <<"U+211D">>, "U+211D">>,
   <<"U+2124", <<"U+2124">>, <<"U+2124">>, "U+2124">>,
   <<"U+2126", <<"U+2126">>, <<"U+03C9">>, "U+03C9">>,
   <<"U+2128", <<"U+2128">>, <<"U+2128">>, "U+2128">>,
   <<"U+212A", <<"U+212A">>, <<"k">>, "k">>,
   <<"U+212B", <<"U+212B">>, <<"U+00E5">>, "U+00E5">>,
   <<"U+212C", <<"U+212C">>, <<"U+212C">>, "U+212C">>,
   <<"U+212D", <<"U+212D">>, <<"U+212D">>, "U+212D">>,
   <<"U+212F", <<"U+212F">>, <<"U+212F">>, "U+212F">>,
   <<"U+2130", <<"U+2130">>, <<"U+2130">>, "U+2130">>,
   <<"U+2131", <<"U+2131">>, <<"U+2131">>, "U+2131">>,
   <<"U+2133", <<"U+2133">>, <<"U+2133">>, "U+2133">>,
   <<"U+2134", <<"U+2134">>, <<"U+2134">>, "U+2134">>,
   <<"U+2139", <<"U+2139">>, <<"U+2139">>, "U+2139">>,
   <<"U+213C", <<"U+213C">>, <<"U+213C">>, "U+213C">>,
   <<"U+213D", <<"U+213D">>, <<"U+213D">>, "U+213D">>,
   <<"U+213E", <<"U+213E">>, <<"U+213E">>, "U+213E">>,
   <<"U+213F", <<"U+213F">>, <<"U+213F">>, "U+213F">>,
   <<"U+2145", <<"U+2145">>, <<"U+2145">>, "U+2145">>,
   <<"U+2146", <<"U+2146">>, <<"U+2146">>, "U+2146">>,
   <<"U+2147", <<"U+2147">>, <<"U+2147">>, "U+2147">>,
   <<"U+2148", <<"U+2148">>, <<"U+2148">>, "U+2148">>,
   <<"U+2149", <<"U+2149">>, <<"U+2149">>, "U+2149">>,
   <<"U+FB00", <<"F", "F">>, <<"U+FB00">>, "U+FB00">>,
   <<"U+FB01", <<"F", "I">>, <<"U+FB01">>, "U+FB01">>,
   <<"U+FB02", <<"F", "L">>, <<"U+FB02">>, "U+FB02">>,
   <<"U+FB03", <<"F", "F", "I">>, <<"U+FB03">>, "U+FB03">>,
   <<"U+FB04", <<"F", "F", "L">>, <<"U+FB04">>, "U+FB04">>,
   <<"U+FB05", <<"S", "T">>, <<"U+FB05">>, "U+FB05">>,
   <<"U+FB06", <<"S", "T">>, <<"U+FB06">>, "U+FB06">>}

\* the index of a character in a sequence of characters, 0 when it is not in it
IndexIn(letters, c) ==
  IF \E i \in 1..Len(letters) : letters[i] = c
    THEN CHOOSE i \in 1..Len(letters) : letters[i] = c
    ELSE 0

\* the row of a character: l is its index in lowers, the lower-case letters of
\* one-for-one pairs, and u its index in uppers, the upper-case letters of the same
\* pairs, 0 when it is not among them, and r its row among the other cased letters; a
\* character without a row has no value
Row(c, lowers, uppers, l, u, r) ==
  IF l > 0
    THEN [c |-> c, upper |-> <<uppers[l]>>, lower |-> <<c>>, fold |-> c,
          word |-> TRUE, cased |-> TRUE, ignorable |-> FALSE]
  ELSE IF u > 0
    THEN [c |-> c, upper |-> <<c>>, lower |-> <<lowers[u]>>, fold |-> lowers[u],
          word |-> TRUE, cased |-> TRUE, ignorable |-> FALSE]
  ELSE IF c \in Caseless
    THEN [c |-> c, upper |-> <<c>>, lower |-> <<c>>, fold |-> c,
          word |-> c \in CaselessWord, cased |-> FALSE, ignorable |-> c \in CaselessIgnorable]
  ELSE [c |-> c, upper |-> r[2], lower |-> r[3], fold |-> r[4],
        word |-> TRUE, cased |-> TRUE, ignorable |-> FALSE]

\* the row of a character that is at l among the lower-case letters of ASCII and at u
\* among the upper-case ones, 0 when it is not among them
CharAt(c, l, u) ==
  IF l + u > 0 \/ c \in Caseless
    THEN Row(c, LowerLetters, UpperLetters, l, u, <<>>)
    ELSE Row(c, LowerOthers, UpperOthers, IndexIn(LowerOthers, c), IndexIn(UpperOthers, c),
             CHOOSE r \in CasedRows : r[1] = c)

Char(c) == CharAt(c, IndexIn(LowerLetters, c), IndexIn(UpperLetters, c))

\* str.upper() on one character: the characters it becomes
UpperChar(c) == Char(c).upper

\* str.lower() on one character: the characters it becomes
LowerChar(c) == Char(c).lower

\* concatenation of a sequence of strings
RECURSIVE Concat(_)
Concat(ss) == IF ss = <<>> THEN <<>> ELSE Head(ss) \o Concat(Tail(ss))

upper(s) == Concat([i \in 1..Len(s) |-> UpperChar(s[i])])

\* the capital sigma at position i of the characters with these rows is in final
\* position: the nearest character before it that is not case-ignorable is cased, and
\* the nearest such character after it, if there is one, is not
FinalSigma(rows, i) ==
  LET before == {j \in 1..(i - 1) : ~rows[j].ignorable}
      after == {j \in (i + 1)..Len(rows) : ~rows[j].ignorable}
  IN /\ before /= {}
     /\ rows[CHOOSE j \in before : \A k \in before : k <= j].cased
     /\ after /= {} => ~rows[Min(after)].cased

\* str.lower() on the characters with these rows: character by character, a capital
\* sigma in final position becoming the final small sigma
LowerRows(rows) ==
  Concat([i \in 1..Len(rows) |->
            IF rows[i].c = CAP_SIGMA /\ FinalSigma(rows, i)
              THEN <<FINAL_SIGMA>>
              ELSE rows[i].lower])

lower(s) == LowerRows([i \in 1..Len(s) |-> Char(s[i])])

\* the characters str.strip() removes and the regex class \s matches: those for which
\* str.isspace() holds, the ones outside \t \n \r and the space named by code point
Whitespace ==
  {" ", "\t", "\n", "\r", "U+000B", "U+000C", "U+001C", "U+001D", "U+001E", "U+001F",
   "U+0085", "U+00A0", "U+1680", "U+2000", "U+2001", "U+2002", "U+2003", "U+2004",
   "U+2005", "U+2006", "U+2007", "U+2008", "U+2009", "U+200A", "U+2028", "U+2029",
   "U+202F", "U+205F", "U+3000"}

\* needle in hay
Contains(hay, needle) ==
  \E i \in 0..(Len(hay) - Len(needle)) : SubSeq(hay, i + 1, i + Len(needle)) = needle

\* hay.startswith(prefix)
StartsWith(hay, prefix) ==
  Len(prefix) <= Len(hay) /\ SubSeq(hay, 1, Len(prefix)) = prefix

\* s.strip()
strip(s) ==
  LET keep == {i \in 1..Len(s) : s[i] \notin Whitespace}
  IN IF keep = {} THEN <<>>
     ELSE SubSeq(s, Min(keep), CHOOSE j \in keep : \A k \in keep : k <= j)

\* s[:n]
Take(s, n) == SubSeq(s, 1, IF Len(s) < n THEN Len(s) ELSE n)

-----------------------------------------------------------------------------
(* QueryService.validate_sql_safety *)

forbidden_keywords ==
  << <<"D","R","O","P">>,
     <<"D","E","L","E","T","E">>,
     <<"I","N","S","E","R","T">>,
     <<"U","P","D","A","T","E">>,
     <<"A","L","T","E","R">>,
     <<"T","R","U","N","C","A","T","E">>,
     <<"G","R","A","N","T">>,
     <<"R","E","V","O","K","E">>,
     <<"E","X","E","C">> >>

\* a variant that tests for the bare keyword, without the padding spaces
ForbiddenHitsUnpadded(sql) ==
  {k \in 1..Len(forbidden_keywords) : Contains(upper(sql), forbidden_keywords[k])}

\* the keywords, in list order, that the loop's test finds in the padded SQL
ForbiddenHits(sql) ==
  LET sql_upper == upper(sql)
      padded == <<" ">> \o sql_upper \o <<" ">>
  IN {k \in 1..Len(forbidden_keywords) :
        Contains(padded, <<" ">> \o forbidden_keywords[k] \o <<" ">>)}

\* ok = TRUE: returns True; ok = FALSE: raises ValueError naming the first keyword found
validate_sql_safety(sql) ==
  LET hits == ForbiddenHits(sql)
  IN IF hits = {} THEN [ok |-> TRUE, keyword |-> <<>>]
     ELSE [ok |-> FALSE, keyword |-> forbidden_keywords[Min(hits)]]

-----------------------------------------------------------------------------
(* QueryService.generate_sql_explanation *)

txtCOUNT_STAR == <<"C","O","U","N","T","(","*",")">>

txtCOUNT_PAREN == <<"C","O","U","N","T","(">>

txtFROM_EMPLOYEES == <<"F","R","O","M"," ","E","M","P","L","O","Y","E","E","S">>

txtSELECT == <<"S","E","L","E","C","T">>

txtWHERE == <<"W","H","E","R","E">>

txtJOIN == <<"J","O","I","N">>

txtORDER_BY == <<"O","R","D","E","R"," ","B","Y">>

generate_sql_explanation(question, sql) ==
  LET sql_upper == strip(upper(sql))
  IN IF Contains(sql_upper, txtCOUNT_STAR) \/ Contains(sql_upper, txtCOUNT_PAREN)
       THEN IF Contains(sql_upper, txtFROM_EMPLOYEES)
              THEN <<"Toplam calisan sayisini buluyorum.">>
              ELSE <<"Kayit sayisini buluyorum.">>
     ELSE IF StartsWith(sql_upper, txtSELECT)
       THEN IF Contains(sql_upper, txtWHERE) THEN <<"Filtrelenmis verileri getiriyorum.">>
            ELSE IF Contains(sql_upper, txtJOIN) THEN <<"Birlestirilmis verileri getiriyorum.">>
            ELSE IF Contains(sql_upper, txtORDER_BY) THEN <<"Siralanmis verileri getiriyorum.">>
            ELSE <<"Verileri getiriyorum.">>
     ELSE <<"SQL sorgusu olusturuldu.">>

\* the explanation, a blank line and the SQL in a fenced sql block; the block alone when the explanation is empty
FullContent(sql_explanation, full_sql) ==
  IF sql_explanation /= <<>>
    THEN sql_explanation \o <<"\n","\n",BT,BT,BT,"s","q","l","\n">> \o full_sql \o <<"\n",BT,BT,BT>>
    ELSE <<BT,BT,BT,"s","q","l","\n">> \o full_sql \o <<"\n",BT,BT,BT>>

\* the content of every result message
txtResults == <<"Sorgu sonuclari:">>

-----------------------------------------------------------------------------
(* QueryService.generate_friendly_error *)

\* a variant whose fallback carries the whole raw error
generate_friendly_error_untruncated(reply, question, sql, error_msg) ==
  IF reply = None
    THEN <<"Sorgu calistirilirken bir hata olustu: ">> \o error_msg
  ELSE IF strip(reply.val) = <<>>
    THEN <<"Sorgu calistirilirken bir hata olustu. Lutfen sorgunuzu kontrol edin.">>
  ELSE strip(reply.val)

\* reply = None: vn.submit_prompt raised; Some(text): the text it returned
generate_friendly_error(reply, question, sql, error_msg) ==
  IF reply = None
    THEN <<"Sorgu calistirilirken bir hata olustu: ">> \o Take(error_msg, 100)
  ELSE IF strip(reply.val) = <<>>
    THEN <<"Sorgu calistirilirken bir hata olustu. Lutfen sorgunuzu kontrol edin.">>
  ELSE strip(reply.val)

-----------------------------------------------------------------------------
(* pandas DataFrame: ordered columns with a dtype each, ordered rows *)

NumericDtypes == {"int64", "float64", "int32", "float32"}

\* df.select_dtypes(include=[...]).columns.tolist()
select_dtypes(df, dtypes) ==
  SelectSeq(df.columns, LAMBDA c : c.dtype \in dtypes)

\* the Python type of the values to_dict gives for a column: a number for a numeric
\* dtype, a Timestamp for datetime64, and for an object column the type of the
\* objects it holds (str unless the column says otherwise)
ValueType(column) ==
  IF column.dtype \in NumericDtypes THEN "number"
  ELSE IF column.dtype = "datetime64" THEN "Timestamp"
  ELSE IF "holds" \in DOMAIN column THEN column.holds
  ELSE "str"

\* the keys of the dict built from a row: a column name that repeats is one key, at
\* the place of its first column and with the value of its last
RecordKeys(df) ==
  LET first == SelectSeq([k \in 1..Len(df.columns) |-> k],
                         LAMBDA k : \A j \in 1..(k - 1) : df.columns[j].name /= df.columns[k].name)
      last(k) == CHOOSE j \in 1..Len(df.columns) :
                   /\ df.columns[j].name = df.columns[k].name
                   /\ \A m \in (j + 1)..Len(df.columns) : df.columns[m].name /= df.columns[k].name
  IN [columns |-> [i \in 1..Len(first) |-> df.columns[first[i]].name],
      types |-> [i \in 1..Len(first) |-> ValueType(df.columns[last(first[i])])]]

\* df.head(n).to_dict(orient="records"): one mapping column -> scalar per row
HeadRecords(df, n) ==
  [i \in 1..(IF Len(df.rows) < n THEN Len(df.rows) ELSE n) |->
     [columns |-> RecordKeys(df).columns, types |-> RecordKeys(df).types, row |-> df.rows[i]]]

\* a variant without the test on the number of columns
should_generate_chart_any_width(df, sql) ==
  IF Len(df.rows) = 0 \/ Len(df.columns) = 0 THEN FALSE
  ELSE IF Len(df.rows) > 100 THEN FALSE
  ELSE IF Len(df.rows) < 2 THEN FALSE
  ELSE IF Len(df.columns) < 2 THEN FALSE
  ELSE IF select_dtypes(df, NumericDtypes) = <<>> THEN FALSE
  ELSE TRUE

should_generate_chart(df, sql) ==
  IF Len(df.rows) = 0 \/ Len(df.columns) = 0 THEN FALSE
  ELSE IF Len(df.rows) > 100 THEN FALSE
  ELSE IF Len(df.rows) < 2 THEN FALSE
  ELSE IF Len(df.columns) < 2 THEN FALSE
  ELSE IF select_dtypes(df, NumericDtypes) = <<>> THEN FALSE
  ELSE IF Len(df.columns) > 5 THEN FALSE
  ELSE TRUE

AnyContains(hay, words) == \E w \in words : Contains(hay, w)

AggregationWords ==
  { <<"c","o","u","n","t">>, <<"s","u","m">>, <<"a","v","g">>, <<"a","v","e","r","a","g","e">> }

RankingWords ==
  { <<"d","e","s","c">>, <<"s","a","l","a","r","y">>, <<"p","r","i","c","e">>, <<"a","m","o","u","n","t">> }

DateWords ==
  { <<"d","a","t","e">>, <<"t","i","m","e">>, <<"y","e","a","r">>, <<"m","o","n","t","h">> }

txt_order_by == <<"o","r","d","e","r"," ","b","y">>

\* the try block of generate_plotly_chart: the Plotly figure, reduced to its kind, category
\* column, series and the number of points each trace holds (one per row of df); None where the code returns None; Raised where a statement of the
\* block raises. df[c] of a column name that occurs twice is a DataFrame, which has no
\* tolist(), so reading the category column or a series column of such a name raises
chart_try_block(df, sql) ==
  IF Len(df.rows) = 0 \/ Len(df.columns) = 0 \/ Len(df.rows) > 100 THEN None
  ELSE IF Len(df.columns) < 2 THEN None
  ELSE
    LET x_col == df.columns[1].name
        numeric_columns == select_dtypes(df, NumericDtypes)
        sql_lower == lower(sql)
        names(cols) == [k \in 1..Len(cols) |-> cols[k].name]
        unique(name) == Cardinality({k \in 1..Len(df.columns) : df.columns[k].name = name}) = 1
        readable(cols) == unique(x_col) /\ \A k \in 1..Len(cols) : unique(cols[k].name)
        figure(kind, cols) ==
          IF readable(cols)
            THEN Some([chart_type |-> kind, x |-> x_col, series |-> names(cols),
                       points |-> Len(df.rows)])
          ELSE Raised
    IN IF numeric_columns = <<>> THEN None
       ELSE IF Len(numeric_columns) = 1
         THEN IF AnyContains(sql_lower, AggregationWords)
                THEN figure("bar", numeric_columns)
              ELSE IF Contains(sql_lower, txt_order_by) /\ AnyContains(sql_lower, RankingWords)
                THEN figure("horizontal_bar", numeric_columns)
              ELSE figure("bar", numeric_columns)
       ELSE IF select_dtypes(df, {"datetime64"}) /= <<>> \/ AnyContains(lower(x_col), DateWords)
         THEN figure("line", Take(numeric_columns, 3))
       ELSE figure("grouped_bar", Take(numeric_columns, 3))

\* the try block under its except clause, which returns None
generate_plotly_chart(df, sql) ==
  IF chart_try_block(df, sql) = Raised THEN None ELSE chart_try_block(df, sql)

-----------------------------------------------------------------------------
(* ChatService.add_message: one row appended to chat_messages *)

\* the types of values json.dumps, called with no default and no encoder class, has an
\* encoding for: str, int and float (number), bool, None and the containers of these;
\* a value of any other type (bytes, Timestamp, date, time, timedelta, Decimal, UUID,
\* set, complex, ...) raises TypeError
JsonTypes == {"str", "number", "bool", "NoneType"}

\* json.dumps(data) raises TypeError unless every value of the records is of such a type
JsonSerializable(data) ==
  \A i \in 1..Len(data) : \A k \in 1..Len(data[i].types) : data[i].types[k] \in JsonTypes

\* json.dumps(x) of a value of JSON types: the stored text of x, read back with json.loads
json_dumps(x) == [json |-> x]

\* json.loads(text) of a text json.dumps wrote: the value the text stands for
json_loads(text) == text.json

\* ChatService.add_message over a chat_sessions table. The body is one try block: when
\* json.dumps(data) raises, or the INSERT does because foreign keys are enforced and
\* the table has no row of that id, the handler prints, returns None and nothing is
\* inserted
insert_message(sessions, msgs, session_id, role, content, sql_query, data, plotly_json) ==
  IF data /= None /\ data.val /= <<>> /\ ~JsonSerializable(data.val) THEN msgs
  ELSE IF foreign_keys /\ \A r \in sessions : r.id /= session_id THEN msgs
  ELSE Append(msgs,
         [session_id |-> session_id,
          role |-> role,
          content |-> content,
          sql_query |-> sql_query,
          data |-> IF data /= None /\ data.val /= <<>> THEN Some(json_dumps(data.val)) ELSE None,
          plotly_json |-> IF plotly_json /= None THEN Some(json_dumps(plotly_json.val)) ELSE None])

\* a variant that writes over the last message of the transcript
add_message_overwriting(msgs, session_id, role, content, sql_query, data, plotly_json) ==
  LET row == [session_id |-> session_id, role |-> role, content |-> content,
              sql_query |-> sql_query,
              data |-> IF data /= None /\ data.val /= <<>> THEN Some(json_dumps(data.val)) ELSE None,
              plotly_json |-> IF plotly_json /= None THEN Some(json_dumps(plotly_json.val)) ELSE None]
  IN IF msgs = <<>> THEN <<row>> ELSE [msgs EXCEPT ![Len(msgs)] = row]

\* ChatService.add_message on the chat_sessions table as it is
add_message(msgs, session_id, role, content, sql_query, data, plotly_json) ==
  insert_message(chat_sessions, msgs, session_id, role, content, sql_query, data, plotly_json)

\* DELETE FROM chat_sessions WHERE id = ? AND user_id = ? on a connection opened by
\* get_connection, which issues no PRAGMA enforced: the ON DELETE CASCADE of
\* chat_messages acts only when the SQLite build enforces foreign keys by default
delete_session(sessions, msgs, session_id, user_id, enforced) ==
  LET rows == {r \in sessions : r.id = session_id /\ r.user_id = user_id}
      cascades(m) == enforced /\ \E r \in rows : m.session_id = r.id
  IN [sessions |-> sessions \ rows,
      messages |-> SelectSeq(msgs, LAMBDA m : ~cascades(m)),
      removed |-> {p \in 1..Len(msgs) : cascades(msgs[p])},
      out |-> Cardinality(rows) > 0]

\* where the rows at the given places are once the rows at the removed places are gone
PlacesAfter(places, removed) ==
  LET live == SelectSeq(places, LAMBDA p : p \notin removed)
  IN [k \in 1..Len(live) |-> live[k] - Cardinality({r \in removed : r < live[k]})]
-----------------------------------------------------------------------------
(* send_message, step 3: SQL extraction from the raw model response *)

\* the regex class \w of a str pattern: letters and digits of any script and "_"
IsWordChar(c) == Char(c).word

\* the character a character is compared as under re.IGNORECASE: its lower case, with
\* the long s counted as s, the dotless and the dotted capital i as i, the Kelvin sign
\* as k
CaseFold(c) == Char(c).fold

\* lit matches s at position i, ignoring case
MatchAtCI(s, i, lit) ==
  /\ i >= 1
  /\ i + Len(lit) - 1 <= Len(s)
  /\ \A k \in 1..Len(lit) : CaseFold(s[i + k - 1]) = CaseFold(lit[k])

txtFence == <<BT, BT, BT>>

txtFenceSql == <<BT, BT, BT, "s", "q", "l">>

\* positions of a newline reachable from p through whitespace only (the regex \s*\n)
FenceNewlines(raw, p) ==
  {j \in p..Len(raw) : raw[j] = "\n" /\ \A k \in p..(j - 1) : raw[k] \in Whitespace}

\* positions of a closing fence at or after position c
FenceClosings(raw, c) == {k \in c..Len(raw) : MatchAtCI(raw, k, txtFence)}

\* start positions where the fenced-block pattern matches
FencedStarts(raw) ==
  {i \in 1..Len(raw) :
     /\ MatchAtCI(raw, i, txtFenceSql)
     /\ FenceNewlines(raw, i + 6) /= {}
     /\ FenceClosings(raw, (CHOOSE j \in FenceNewlines(raw, i + 6) :
                              \A k \in FenceNewlines(raw, i + 6) : k <= j) + 1) /= {}}

\* group(1) of the leftmost fenced-block match
FencedGroup(raw) ==
  LET i == Min(FencedStarts(raw))
      nl == CHOOSE j \in FenceNewlines(raw, i + 6) : \A k \in FenceNewlines(raw, i + 6) : k <= j
      c == Min(FenceClosings(raw, nl + 1))
  IN SubSeq(raw, nl + 1, c - 1)

\* start positions where the pattern \bSELECT\b.*?; matches
SelectStarts(raw) ==
  {i \in 1..Len(raw) :
     /\ MatchAtCI(raw, i, txtSELECT)
     /\ (i = 1 \/ ~IsWordChar(raw[i - 1]))
     /\ (i + 6 > Len(raw) \/ ~IsWordChar(raw[i + 6]))
     /\ \E k \in (i + 6)..Len(raw) : raw[k] = ";"}

\* group(0) of the leftmost SELECT match
SelectGroup(raw) ==
  LET i == Min(SelectStarts(raw))
      k == Min({j \in (i + 6)..Len(raw) : raw[j] = ";"})
  IN SubSeq(raw, i, k)

\* a variant that looks for a SELECT statement before it looks for a fenced block
ManualExtract_select_first(raw_sql_response) ==
  IF SelectStarts(raw_sql_response) /= {} THEN strip(SelectGroup(raw_sql_response))
  ELSE IF FencedStarts(raw_sql_response) /= {} THEN strip(FencedGroup(raw_sql_response))
  ELSE strip(raw_sql_response)

\* the extraction used when vn has no extract_sql
ManualExtract(raw_sql_response) ==
  IF FencedStarts(raw_sql_response) /= {} THEN strip(FencedGroup(raw_sql_response))
  ELSE IF SelectStarts(raw_sql_response) /= {} THEN strip(SelectGroup(raw_sql_response))
  ELSE strip(raw_sql_response)

\* what vn.extract_sql may return for a response: the library's own extraction
VnExtractResults(raw_sql_response) == {raw_sql_response, ManualExtract(raw_sql_response)}

-----------------------------------------------------------------------------
(* QueryService.check_semantic_cache over vn.sql_collection *)

distance_threshold == 65

\* the questions of the model
qProje == <<"p","r","o","j","e">>

qProje2 == <<"P","r","o","j","e","?">>

qEmployee == <<"e","m","p","l","o","y","e","e">>

qOther == <<"x","?">>

\* the embedding of a question: a point on a line, in hundredths; qProje and qProje2
\* are textually different and embedding-identical
Embedding(question) ==
  CASE question = qProje -> 0
    [] question = qProje2 -> 0
    [] question = qEmployee -> 65
    [] OTHER -> 131

Abs(n) == IF n < 0 THEN 0 - n ELSE n

Distance(q1, q2) == Abs(Embedding(q1) - Embedding(q2))

\* vn.sql_collection.query(query_texts=[question], n_results=1): None for an empty
\* collection, else a nearest document with its distance
QueryResults(collection, question) ==
  IF collection = {} THEN {None}
  ELSE {Some([distance |-> Distance(question, doc.question), document |-> json_dumps(doc)]) :
          doc \in {d \in collection :
                     \A e \in collection : Distance(question, d.question) <= Distance(question, e.question)}}

\* the outcomes of that query inside check_semantic_cache: its result, or an exception
CacheQueryOutcomes(collection, question) == {Raised} \cup QueryResults(collection, question)

\* a variant without the handler that turns an exception into a miss
check_semantic_cache_propagating(result) ==
  IF result = Raised THEN Raised
  ELSE IF result = None THEN None
  ELSE IF result.val.distance > distance_threshold THEN None
  ELSE IF result.val.document.json.sql /= <<>> THEN Some(result.val.document.json.sql)
  ELSE None

\* a variant without the distance test
check_semantic_cache_any_distance(result) ==
  IF result = Raised \/ result = None THEN None
  ELSE IF result.val.document.json.sql /= <<>> THEN Some(result.val.document.json.sql)
  ELSE None

\* a variant that returns the cached question in place of the cached SQL
check_semantic_cache_cached_question(result) ==
  IF result = Raised \/ result = None THEN None
  ELSE IF result.val.distance > distance_threshold THEN None
  ELSE IF result.val.document.json.sql /= <<>> THEN Some(result.val.document.json.question)
  ELSE None

\* result = Raised: the query raised (the handler returns None); result = None: it
\* returned no document
check_semantic_cache(result) ==
  IF result = Raised THEN None
  ELSE IF result = None THEN None
  ELSE LET distance == result.val.distance
           doc_dict == result.val.document.json
           cached_sql == doc_dict.sql
       IN IF distance > distance_threshold THEN None
          ELSE IF cached_sql /= <<>> THEN Some(cached_sql)
          ELSE None

\* vn.train(question, sql): one document added to vn.sql_collection
train(collection, question, sql) == collection \cup {[question |-> question, sql |-> sql]}

-----------------------------------------------------------------------------
(* Inputs and collaborator outcomes *)

\* the number of requests one behaviour serves
MaxRequests == 2

sqlSelect == <<"S","E","L","E","C","T"," ","1">>

sqlDelete == <<"D","E","L","E","T","E"," ","F","R","O","M"," ","t">>

sqlDeleteNl == <<"d","e","l","e","t","e","\n","f","r","o","m"," ","t">>

\* questions asked of the pipeline and questions saved with a query
AskQuestions == {qProje2, qOther}

SaveQuestions == {qProje, qEmployee}

SaveSqls == {sqlSelect, sqlDelete}

Histories == { <<>>, <<[role |-> "user", content |-> qProje]>> }

\* chat_sessions when the requests begin: session s1 belongs to user 1
OneSession == {[id |-> "s1", user_id |-> 1]}

\* chat_sessions with a session of each user
TwoSessions == {[id |-> "s1", user_id |-> 1], [id |-> "s2", user_id |-> 2]}

\* the values uuid.uuid4() gives create_session
Uuids == {"s1", "s2"}

Users == {1, 2}

\* what vn.generate_sql_stream yields, and whether it then raises
GenStreams ==
  { [tokens |-> << <<"S","E","L","E","C","T">>, <<" ","1">> >>, raises |-> FALSE],
    [tokens |-> << <<"S","E","L">> >>, raises |-> TRUE],
    [tokens |-> << >>, raises |-> TRUE],
    [tokens |-> << >>, raises |-> FALSE] }

\* str(e) of a failed generation call
errGeneration == <<"o","l","l","a","m","a"," ","d","o","w","n">>

\* what vn.generate_sql returns (None: it raises)
GenerateSqlResults == {None, Some(sqlSelect), Some(sqlDelete), Some(<<"h","e","l","l","o">>)}

dfEmployees ==
  [columns |-> << [name |-> <<"n","a","m","e">>, dtype |-> "object"],
                  [name |-> <<"d","e","p","a","r","t","m","e","n","t">>, dtype |-> "object"],
                  [name |-> <<"s","a","l","a","r","y">>, dtype |-> "int64"] >>,
   rows |-> <<1, 2, 3, 4>>]

dfMonths ==
  [columns |-> << [name |-> <<"m","o","n","t","h">>, dtype |-> "object"],
                  [name |-> <<"t","o","t","a","l">>, dtype |-> "float64"] >>,
   rows |-> <<1, 2, 3, 4, 5, 6, 7, 8, 9, 10, 11, 12>>]

\* str(e) of a failed vn.run_sql
errNoColumn == <<"n","o"," ","s","u","c","h"," ","c","o","l","u","m","n">>

\* what vn.submit_prompt does for the error translator (None: it raises)
FriendlyReplies == {None, Some(<<" ">>), Some(<<" ","B","i","l","g","i"," ","y","o","k",".","\n">>)}

\* what vn.submit_prompt does for the contextualizer (None: it raises)
ContextReplies == {None, Some(<<>>), Some(<<" ","\n">>), Some(<<" ">> \o qProje \o <<"\n">>)}

-----------------------------------------------------------------------------
(* State *)

VARIABLES
  sql_collection,    \* vn.sql_collection: the documents of the semantic cache
  chat_messages,     \* the chat_messages table, in insertion order
  sql_cache,         \* main.py's legacy dict of generated queries
  pc,                \* of each request in order of arrival: where it stands
  req,               \* of each request: what was asked
  process_question,  \* of each request: the question after Step 0
  raw_sql_response,  \* of each request: the text vn.generate_sql returned
  full_sql,          \* of each request: its SQL
  gen,               \* of each request: what the generation stream still holds
  events,            \* of each request: the server-sent events sent, in order
  calls,             \* of each request: the collaborator calls made, in order
  response,          \* of each request: the HTTP response
  written,           \* of each request: the places in chat_messages of the rows it inserted
  n_requests,        \* requests served so far
  fn                 \* a function under test with its input and result

vars ==
  <<sql_collection, chat_messages, sql_cache, pc, req, process_question,
    raw_sql_response, full_sql, gen, events, calls, response, written, n_requests, fn,
    chat_sessions, foreign_keys>>

storeVars == <<sql_collection, chat_messages, sql_cache>>

localVars == <<process_question, raw_sql_response, full_sql, gen, written>>

\* the requests that have arrived
Requests == 1..Len(req)

NoGen == [tokens |-> <<>>, raises |-> FALSE]

NoFn == [op |-> "none", arg |-> <<>>, out |-> None]

Call(op, text, role) == [op |-> op, text |-> text, role |-> role]

Event(type, body) == [type |-> type, body |-> body]

\* the consumer's disconnections in a call log
CallsOfDisconnect(log) == {i \in 1..Len(log) : log[i].op = "disconnect"}

DoneEvent == Event("done", [sentinel |-> "[DONE]"])

PipelineInit ==
  /\ sql_collection = {}
  /\ chat_messages = <<>>
  /\ sql_cache = {}
  /\ pc = <<>>
  /\ req = <<>>
  /\ process_question = <<>>
  /\ raw_sql_response = <<>>
  /\ full_sql = <<>>
  /\ gen = <<>>
  /\ events = <<>>
  /\ calls = <<>>
  /\ response = <<>>
  /\ written = <<>>
  /\ n_requests = 0

\* the table of sessions and the SQLite build
DeploymentInit(sessions) ==
  /\ chat_sessions = sessions
  /\ foreign_keys \in BOOLEAN

\* the application as main.py wires it: chat_service = ChatService(db_service)
Init == PipelineInit /\ fn = NoFn /\ DeploymentInit(OneSession)

\* ChatService.get_session_by_id: the session when it exists and belongs to the user
get_session_by_id(session_id, user_id) ==
  {s \in chat_sessions : s.id = session_id /\ s.user_id = user_id}

\* a variant that goes on with the question as it was asked
Contextualized_original(question, history, reply) == question

\* a variant that takes the reply as it is, without trimming it
Contextualized_untrimmed(question, history, reply) ==
  IF history /= <<>> /\ reply /= None /\ reply.val /= <<>> THEN reply.val ELSE question

\* the question after the contextualizer's reply (None: it raised)
Contextualized(question, history, reply) ==
  IF history /= <<>> /\ reply /= None /\ reply.val /= <<>> /\ strip(reply.val) /= <<>>
    THEN strip(reply.val) ELSE question

\* the contextualizer's call of vn.submit_prompt and its return (None: it raised)
ContextualizeCalls(question, reply) ==
  << Call("submit_prompt", question, "contextualize"),
     Call("submit_prompt.return", IF reply = None THEN <<>> ELSE reply.val,
          IF reply = None THEN "raised" ELSE "ok") >>

\* the places of the rows appended to a table between two of its states
Appended(before, after) ==
  [k \in 1..(Len(after) - Len(before)) |-> Len(before) + k]

\* a request arrives and its handler runs up to its first suspension: where it stands
\* then, its question, its SQL, the calls made, its response and the rows inserted
Arrive(request, at, question, sql, made, answer, rows) ==
  /\ req' = Append(req, request)
  /\ pc' = Append(pc, at)
  /\ process_question' = Append(process_question, question)
  /\ raw_sql_response' = Append(raw_sql_response, <<>>)
  /\ full_sql' = Append(full_sql, sql)
  /\ gen' = Append(gen, NoGen)
  /\ events' = Append(events, <<>>)
  /\ calls' = Append(calls, made)
  /\ response' = Append(response, answer)
  /\ written' = Append(written, rows)
  /\ n_requests' = n_requests + 1

\* a handler of generate_sql is between its cache check and its return. Its body holds
\* no await, and uvicorn.run serves the application on one event loop: no other request
\* is served until the handler has returned
InHandler == \E i \in Requests : pc[i] = "gs_standard"

-----------------------------------------------------------------------------
(* vanna-main-backend/api/chat.py: handlers that await the methods of ChatService *)

\* `await` applied to what a method of ChatService returned, a plain value: TypeError,
\* raised after the method has run and its transaction has committed; nothing in the
\* handler catches it and the request is answered 500
AwaitedPlainValue == [status |-> 500, type |-> "TypeError"]

\* POST /chat/new: the title comes from generate_session_title, and create_session
\* inserts a row under the uuid drawn (the PRIMARY KEY refuses an id the table holds,
\* and the method returns None); its result, a str or None, is awaited
CreateNewSession ==
  /\ n_requests < MaxRequests
  /\ \E user_id \in Users, session_id \in Uuids :
       LET inserted == \A r \in chat_sessions : r.id /= session_id
       IN /\ chat_sessions' = IF inserted
                                 THEN chat_sessions \cup {[id |-> session_id, user_id |-> user_id]}
                                 ELSE chat_sessions
          /\ fn' = [op |-> "create_session", arg |-> session_id, user_id |-> user_id,
                    out |-> AwaitedPlainValue]
  /\ n_requests' = n_requests + 1
  /\ UNCHANGED <<storeVars, pc, req, localVars, events, calls, response, foreign_keys>>

\* DELETE /chat/{session_id}: delete_session runs, and its result, a bool, is awaited;
\* the requests of that session learn that it was deleted
ChatDeleteSession ==
  /\ n_requests < MaxRequests
  /\ \E user_id \in Users, session_id \in Uuids :
       LET after == delete_session(chat_sessions, chat_messages, session_id, user_id, foreign_keys)
       IN /\ chat_sessions' = after.sessions
          /\ chat_messages' = after.messages
          /\ req' = [i \in Requests |->
                       IF after.out /\ req[i].session_id = Some(session_id)
                         THEN [req[i] EXCEPT !.session_deleted = TRUE] ELSE req[i]]
          /\ written' = [i \in Requests |-> PlacesAfter(written[i], after.removed)]
          /\ fn' = [op |-> "delete_session", arg |-> session_id, user_id |-> user_id,
                    out |-> AwaitedPlainValue]
  /\ n_requests' = n_requests + 1
  /\ UNCHANGED <<sql_collection, sql_cache, pc, process_question, raw_sql_response, full_sql, gen,
                 events, calls, response, foreign_keys>>

\* POST /chat/{session_id}/message: the first statement of the handler awaits what
\* get_session_by_id returned, a dict or None, outside every try block: the request is
\* answered 500 before the ownership test, before the user's message is saved and
\* before message_generator is defined, whatever the session, the user and the mode
SendMessage ==
  /\ ~InHandler
  /\ n_requests < MaxRequests
  /\ \E user_id \in Users, question \in AskQuestions, history \in Histories, stream \in BOOLEAN :
       Arrive([endpoint |-> "send_message", question |-> question, history |-> history,
               session_id |-> Some("s1"), user_id |-> user_id, stream |-> stream,
               session_deleted |-> FALSE],
              "idle", <<>>, <<>>, << Call("get_session_by_id", <<>>, "") >>,
              Some(AwaitedPlainValue), <<>>)
  /\ UNCHANGED <<storeVars, fn>>
  /\ UNCHANGED sessionVars

-----------------------------------------------------------------------------
(* src/api/chat.py: handlers that call the methods of ChatService without await *)

\* POST /chat/new: create_session inserts the session under the uuid drawn, and the
\* first message is saved as the user's; a uuid the table holds makes create_session
\* return None, and the request is answered 500
RootCreateNewSession ==
  /\ n_requests < MaxRequests
  /\ \E user_id \in Users, session_id \in Uuids, first_message \in AskQuestions :
       LET created == \A r \in chat_sessions : r.id /= session_id
           sessions == chat_sessions \cup {[id |-> session_id, user_id |-> user_id]}
       IN /\ chat_sessions' = IF created THEN sessions ELSE chat_sessions
          /\ chat_messages' =
               IF created
                 THEN insert_message(sessions, chat_messages, session_id, "user",
                                     first_message, None, None, None)
                 ELSE chat_messages
          /\ fn' = [op |-> "create_new_session", arg |-> session_id, user_id |-> user_id,
                    out |-> IF created THEN [status |-> 200, type |-> "success"]
                            ELSE [status |-> 500, type |-> "HTTPException"]]
  /\ n_requests' = n_requests + 1
  /\ UNCHANGED <<sql_collection, sql_cache, pc, req, localVars, events, calls, response, foreign_keys>>

\* DELETE /chat/{session_id}: delete_session, answered 404 when it deleted nothing
RootDeleteSession ==
  /\ n_requests < MaxRequests
  /\ \E user_id \in Users, session_id \in Uuids :
       LET after == delete_session(chat_sessions, chat_messages, session_id, user_id, foreign_keys)
       IN /\ chat_sessions' = after.sessions
          /\ chat_messages' = after.messages
          /\ req' = [i \in Requests |->
                       IF after.out /\ req[i].session_id = Some(session_id)
                         THEN [req[i] EXCEPT !.session_deleted = TRUE] ELSE req[i]]
          /\ written' = [i \in Requests |-> PlacesAfter(written[i], after.removed)]
          /\ fn' = [op |-> "root_delete_session", arg |-> session_id, user_id |-> user_id,
                    out |-> IF after.out THEN [status |-> 200, type |-> "success"]
                            ELSE [status |-> 404, type |-> "HTTPException"]]
  /\ n_requests' = n_requests + 1
  /\ UNCHANGED <<sql_collection, sql_cache, pc, process_question, raw_sql_response, full_sql, gen,
                 events, calls, response, foreign_keys>>

-----------------------------------------------------------------------------
(* src/api/queries.py save_query *)

\* the query is saved; when that succeeds Vanna is trained with it (a training
\* failure is logged and ignored)
SaveQuery ==
  /\ ~InHandler
  /\ n_requests < MaxRequests
  /\ \E question \in SaveQuestions, sql_query \in SaveSqls, saved \in BOOLEAN, trained \in BOOLEAN :
       LET request == [endpoint |-> "save_query", question |-> question, history |-> <<>>,
                       session_id |-> None, user_id |-> 1, stream |-> FALSE,
                       session_deleted |-> FALSE]
       IN IF ~saved
            THEN /\ Arrive(request, "idle", <<>>, sql_query,
                           << Call("save_query", question, "failed") >>,
                           Some([status |-> 500, type |-> "HTTPException"]), <<>>)
                 /\ UNCHANGED sql_collection
            ELSE /\ Arrive(request, "idle", <<>>, sql_query,
                           << Call("save_query", question, "ok"),
                              Call("train", sql_query, IF trained THEN "ok" ELSE "raised") >>,
                           Some([status |-> 201, type |-> "success"]), <<>>)
                 /\ sql_collection' = IF trained THEN train(sql_collection, question, sql_query)
                                      ELSE sql_collection
  /\ UNCHANGED <<chat_messages, sql_cache, fn>>
  /\ UNCHANGED sessionVars
-----------------------------------------------------------------------------
(* main.py helpers of generate_sql *)

sql_keywords ==
  << txtSELECT, <<"I","N","S","E","R","T">>, <<"U","P","D","A","T","E">>,
     <<"D","E","L","E","T","E">>, <<"C","R","E","A","T","E">>, <<"D","R","O","P">>,
     <<"A","L","T","E","R">>, <<"W","I","T","H">> >>

\* s from its first newline on (empty when it has none)
FromNewline(s) ==
  IF \E i \in 1..Len(s) : s[i] = "\n"
    THEN SubSeq(s, Min({i \in 1..Len(s) : s[i] = "\n"}), Len(s))
    ELSE <<>>

\* re.sub(r'--.*', '', s): every comment removed up to its line end
RECURSIVE RemoveComments(_)
RemoveComments(s) ==
  IF s = <<>> THEN <<>>
  ELSE IF Len(s) >= 2 /\ s[1] = "-" /\ s[2] = "-" THEN RemoveComments(FromNewline(s))
  ELSE <<Head(s)>> \o RemoveComments(Tail(s))

\* is_valid_sql accepting every text
is_valid_sql_any(text) == TRUE

is_valid_sql(text) ==
  LET text_upper == strip(RemoveComments(strip(upper(text))))
  IN \E k \in 1..Len(sql_keywords) : StartsWith(text_upper, sql_keywords[k])

\* error.split('.')[0]
FirstSentence(error) ==
  IF \E i \in 1..Len(error) : error[i] = "."
    THEN SubSeq(error, 1, Min({i \in 1..Len(error) : error[i] = "."}) - 1)
    ELSE error

shorten_error_message(error) ==
  IF Len(error) <= 100 THEN error
  ELSE IF Len(FirstSentence(error)) <= 100 THEN strip(FirstSentence(error)) \o <<".">>
  ELSE strip(Take(error, 100)) \o <<".", ".", ".">>

generate_query_variations(question) ==
  LET question_lower == lower(question)
      proje == IF Contains(question_lower, <<"p","r","o","j","e">>)
                 THEN << <<"Tum projeleri listele">>, <<"Projeleri tarihe gore sirala">>,
                         <<"Aktif projeleri goster">>, <<"Proje sayisini goster">> >>
                 ELSE << >>
      calisan == IF \/ Contains(question_lower, <<C_CEDILLA,"a","l",DOTLESS_I,S_CEDILLA,"a","n">>)
                    \/ Contains(question_lower, <<"e","m","p","l","o","y","e","e">>)
                   THEN << <<"Tum calisanlari listele">>, <<"Calisan sayisini goster">>,
                           <<"Departmana gore calisanlari goster">> >>
                   ELSE << >>
      variations == IF proje \o calisan = << >>
                      THEN << <<"Tum kayitlari listele">>, <<"Kayit sayisini goster">>,
                              <<"Son kayitlari goster">> >>
                      ELSE proje \o calisan
  IN Take(variations, 3)

\* hashlib.md5(text).hexdigest()
md5(text) == [md5 |-> text]

QueryId(question, sql) == md5(question \o <<"_">> \o sql)

-----------------------------------------------------------------------------
(* main.py generate_sql *)

SessionIds == {None, Some("s1")}

\* the text of an exception raised by the collection's query
errCacheLookup == <<"q","u","e","r","y"," ","f","a","i","l","e","d">>

\* chat_service.add_message(...) as the handler calls it
AddMessageCall(text, role) == << Call("add_message", text, role) >>

\* a variant that answers a hit without the cache flag
CachedSqlResponseNotFlagged(question, sql) ==
  [status |-> 200, type |-> "sql", id |-> QueryId(question, sql), text |-> sql,
   explanation |-> generate_sql_explanation(question, sql), from_cache |-> FALSE]

\* the answer to a hit of the semantic cache, whatever the stream parameter: one JSON
\* object, flagged from_cache
CachedSqlResponse(question, sql) ==
  [status |-> 200, type |-> "sql", id |-> QueryId(question, sql), text |-> sql,
   explanation |-> generate_sql_explanation(question, sql), from_cache |-> TRUE]

\* entry: the user's message is saved when a session is given, the question is
\* rewritten when a history is given, the semantic cache is checked; a hit is answered.
\* With stream set a miss is answered by a StreamingResponse over sql_generator(),
\* a generator of which nothing has run when the handler returns
GenerateSql ==
  /\ ~InHandler
  /\ n_requests < MaxRequests
  /\ \E question \in AskQuestions, history \in Histories, session_id \in SessionIds,
        stream \in BOOLEAN :
     \E reply \in (IF history = <<>> THEN {None} ELSE ContextReplies) :
     \E result \in CacheQueryOutcomes(sql_collection, Contextualized(question, history, reply)) :
       LET with_user == IF session_id /= None
                          THEN add_message(chat_messages, session_id.val, "user",
                                           question, None, None, None)
                          ELSE chat_messages
           question2 == Contextualized(question, history, reply)
           cached_sql == check_semantic_cache(result)
           entry_calls ==
             (IF session_id /= None THEN AddMessageCall(question, "user") ELSE << >>)
             \o (IF history /= <<>> THEN ContextualizeCalls(question, reply) ELSE << >>)
             \o << Call("sql_collection.query", question2,
                          IF result = Raised THEN "raised" ELSE "ok"),
                   Call("check_semantic_cache", question2,
                          IF Truthy(cached_sql) THEN "hit"
                          ELSE IF cached_sql = Raised THEN "raised" ELSE "miss") >>
           request == [endpoint |-> "generate_sql", question |-> question, history |-> history,
                       session_id |-> session_id, user_id |-> 0, stream |-> stream,
                       session_deleted |-> FALSE]
       IN IF cached_sql = Raised
            THEN /\ chat_messages' = with_user
                 /\ Arrive(request, "idle", question2, <<>>, entry_calls,
                           Some([status |-> 500, type |-> "error",
                                 error |-> shorten_error_message(errCacheLookup),
                                 suggestions |-> generate_query_variations(question2)]),
                           Appended(chat_messages, with_user))
          ELSE IF Truthy(cached_sql)
            THEN LET sql == strip(cached_sql.val)
                     explanation == generate_sql_explanation(question2, sql)
                     full_content == FullContent(explanation, sql)
                     with_sql == IF session_id /= None
                                   THEN add_message(with_user, session_id.val, "assistant",
                                                    full_content, Some(sql), None, None)
                                   ELSE with_user
                 IN /\ chat_messages' = with_sql
                    /\ Arrive(request, "idle", question2, sql,
                              entry_calls \o (IF session_id /= None
                                                THEN AddMessageCall(full_content, "assistant")
                                                ELSE << >>),
                              Some(CachedSqlResponse(question2, sql)),
                              Appended(chat_messages, with_sql))
          ELSE /\ chat_messages' = with_user
               /\ IF stream
                    THEN Arrive(request, "gs_start", question2, <<>>, entry_calls,
                                Some([status |-> 200, type |-> "StreamingResponse"]),
                                Appended(chat_messages, with_user))
                    ELSE Arrive(request, "gs_standard", question2, <<>>, entry_calls, None,
                                Appended(chat_messages, with_user))
  /\ UNCHANGED <<sql_collection, sql_cache, fn>>
  /\ UNCHANGED sessionVars

\* sql_generator of request i after the loop: the legacy cache entry, the SQL message
\* and the metadata event, after the calls made so far
SqlGeneratorMetadata(i, made, sql) ==
  LET query_id == QueryId(process_question[i], sql)
      explanation == generate_sql_explanation(process_question[i], sql)
      full_content == FullContent(explanation, sql)
      with_sql == add_message(chat_messages, req[i].session_id.val, "assistant", full_content,
                              Some(sql), None, None)
  IN /\ sql_cache' = sql_cache \cup {[id |-> query_id, question |-> process_question[i], sql |-> sql]}
     /\ IF req[i].session_id /= None
          THEN /\ chat_messages' = with_sql
               /\ written' = [written EXCEPT ![i] = @ \o Appended(chat_messages, with_sql)]
               /\ calls' = [calls EXCEPT ![i] = made \o AddMessageCall(full_content, "assistant")]
          ELSE /\ calls' = [calls EXCEPT ![i] = made]
               /\ UNCHANGED <<chat_messages, written>>
     /\ events' = [events EXCEPT
                     ![i] = Append(@, Event("metadata", [id |-> query_id, explanation |-> explanation]))]

\* sql_generator, its first run, when the response body is first read:
\* vn.generate_sql_stream is called and its first token is appended and sent; a
\* stream that raises before a token ends the generator there, one that ends before a
\* token is followed by the metadata
GenerateSqlStreamStart ==
  /\ ~InHandler
  /\ \E i \in Requests :
       /\ pc[i] = "gs_start"
       /\ \E stream \in GenStreams :
            LET started == Append(calls[i], Call("generate_sql_stream", process_question[i], ""))
            IN IF stream.tokens /= <<>>
                 THEN /\ full_sql' = [full_sql EXCEPT ![i] = Head(stream.tokens)]
                      /\ events' = [events EXCEPT
                                      ![i] = Append(@, Event("token", [token |-> Head(stream.tokens)]))]
                      /\ gen' = [gen EXCEPT ![i] = [stream EXCEPT !.tokens = Tail(stream.tokens)]]
                      /\ calls' = [calls EXCEPT ![i] = started]
                      /\ pc' = [pc EXCEPT ![i] = "gs_tokens"]
                      /\ UNCHANGED <<chat_messages, sql_cache, written>>
               ELSE IF stream.raises
                 THEN /\ gen' = [gen EXCEPT ![i] = stream]
                      /\ calls' = [calls EXCEPT
                                     ![i] = Append(started, Call("generate_sql_stream.return", <<>>, "raised"))]
                      /\ pc' = [pc EXCEPT ![i] = "idle"]
                      /\ UNCHANGED <<chat_messages, sql_cache, full_sql, events, written>>
               ELSE /\ gen' = [gen EXCEPT ![i] = stream]
                    /\ SqlGeneratorMetadata(i, started, <<>>)
                    /\ pc' = [pc EXCEPT ![i] = "gs_done"]
                    /\ UNCHANGED full_sql
  /\ UNCHANGED <<sql_collection, req, process_question, raw_sql_response, response, n_requests, fn>>
  /\ UNCHANGED sessionVars

\* sql_generator: one token of the stream is appended and sent
GenerateSqlToken ==
  /\ ~InHandler
  /\ \E i \in Requests :
       /\ pc[i] = "gs_tokens"
       /\ gen[i].tokens /= <<>>
       /\ full_sql' = [full_sql EXCEPT ![i] = @ \o Head(gen[i].tokens)]
       /\ events' = [events EXCEPT ![i] = Append(@, Event("token", [token |-> Head(gen[i].tokens)]))]
       /\ gen' = [gen EXCEPT ![i].tokens = Tail(@)]
  /\ UNCHANGED <<storeVars, pc, req, process_question, raw_sql_response, written, calls, response,
                 n_requests, fn>>
  /\ UNCHANGED sessionVars

\* sql_generator: the stream raises; nothing catches it and the generator ends there
GenerateSqlStreamRaises ==
  /\ ~InHandler
  /\ \E i \in Requests :
       /\ pc[i] = "gs_tokens"
       /\ gen[i].tokens = <<>>
       /\ gen[i].raises
       /\ calls' = [calls EXCEPT ![i] = Append(@, Call("generate_sql_stream.return", <<>>, "raised"))]
       /\ pc' = [pc EXCEPT ![i] = "idle"]
  /\ UNCHANGED <<storeVars, req, localVars, events, response, n_requests, fn>>
  /\ UNCHANGED sessionVars

\* sql_generator: after the stream, the legacy cache entry, the SQL message and the
\* metadata event
GenerateSqlMetadata ==
  /\ ~InHandler
  /\ \E i \in Requests :
       /\ pc[i] = "gs_tokens"
       /\ gen[i].tokens = <<>>
       /\ ~gen[i].raises
       /\ SqlGeneratorMetadata(i, calls[i], full_sql[i])
       /\ pc' = [pc EXCEPT ![i] = "gs_done"]
  /\ UNCHANGED <<sql_collection, req, process_question, raw_sql_response, full_sql, gen,
                 response, n_requests, fn>>
  /\ UNCHANGED sessionVars

\* sql_generator: the terminal marker
GenerateSqlDone ==
  /\ ~InHandler
  /\ \E i \in Requests :
       /\ pc[i] = "gs_done"
       /\ events' = [events EXCEPT ![i] = Append(@, DoneEvent)]
       /\ pc' = [pc EXCEPT ![i] = "idle"]
  /\ UNCHANGED <<storeVars, req, localVars, calls, response, n_requests, fn>>
  /\ UNCHANGED sessionVars

\* the places where a request answered by StreamingResponse(sql_generator()) waits for
\* its consumer: before the generator's first run, at the yield of a token and the
\* sleep that follows it, and at the yield of the metadata
SuspensionPoints == {"gs_start", "gs_tokens", "gs_done"}

\* a variant in which the generator, cancelled, still sends its terminal marker
ThrowIntoGeneratorCaught(evts) == [events |-> Append(evts, DoneEvent), pc |-> "idle"]

\* the consumer has left: the generator is never run, or the cancellation is thrown
\* into it where it is suspended; sql_generator has no try block, and it ends there
ThrowIntoGenerator(evts) == [events |-> evts, pc |-> "idle"]

\* the consumer of a streamed answer leaves; the call log keeps what had been sent
ConsumerLeaves ==
  /\ ~InHandler
  /\ \E i \in Requests :
       /\ pc[i] \in SuspensionPoints
       /\ LET after == ThrowIntoGenerator(events[i])
          IN /\ events' = [events EXCEPT ![i] = after.events]
             /\ pc' = [pc EXCEPT ![i] = after.pc]
       /\ calls' = [calls EXCEPT ![i] = Append(@, Call("disconnect", events[i], "consumer"))]
  /\ UNCHANGED <<storeVars, req, localVars, response, n_requests, fn>>
  /\ UNCHANGED sessionVars

\* a generated text that opens with a comment line and is padded
sqlCommented == <<"-","-","c","\n","s","e","l","e","c","t"," ","1"," ">>

StandardGenerateResults == GenerateSqlResults \cup {Some(sqlCommented)}

\* step 3, the standard path: generation, the clarification for text that is no SQL,
\* else the legacy cache entry, the SQL message and the sql result; an exception
\* becomes an error result
GenerateSqlStandard ==
  \E i \in Requests :
    /\ pc[i] = "gs_standard"
    /\ \E generated \in StandardGenerateResults :
         LET question == process_question[i]
             variations == generate_query_variations(question)
         IN /\ raw_sql_response' = [raw_sql_response EXCEPT
                                      ![i] = IF generated = None THEN <<>> ELSE generated.val]
            /\ IF generated = None
                 THEN /\ response' = [response EXCEPT
                                        ![i] = Some([status |-> 500, type |-> "error",
                                                     error |-> shorten_error_message(errGeneration),
                                                     suggestions |-> variations])]
                      /\ calls' = [calls EXCEPT ![i] = Append(@, Call("generate_sql", question, "raised"))]
                      /\ UNCHANGED <<chat_messages, sql_cache, full_sql, written>>
               ELSE IF ~is_valid_sql(generated.val)
                 THEN /\ response' = [response EXCEPT
                                        ![i] = Some([status |-> 200, type |-> "clarification",
                                                     suggestions |-> variations,
                                                     original_question |-> question])]
                      /\ calls' = [calls EXCEPT ![i] = Append(@, Call("generate_sql", question, "ok"))]
                      /\ UNCHANGED <<chat_messages, sql_cache, full_sql, written>>
               ELSE LET sql == strip(generated.val)
                        query_id == QueryId(question, sql)
                        explanation == generate_sql_explanation(question, sql)
                        full_content == FullContent(explanation, sql)
                        with_sql == add_message(chat_messages, req[i].session_id.val, "assistant",
                                                full_content, Some(sql), None, None)
                    IN /\ full_sql' = [full_sql EXCEPT ![i] = sql]
                       /\ sql_cache' = sql_cache \cup {[id |-> query_id, question |-> question, sql |-> sql]}
                       /\ IF req[i].session_id /= None
                            THEN /\ chat_messages' = with_sql
                                 /\ written' = [written EXCEPT ![i] = @ \o Appended(chat_messages, with_sql)]
                                 /\ calls' = [calls EXCEPT
                                                ![i] = @ \o << Call("generate_sql", question, "ok") >>
                                                         \o AddMessageCall(full_content, "assistant")]
                            ELSE /\ calls' = [calls EXCEPT ![i] = Append(@, Call("generate_sql", question, "ok"))]
                                 /\ UNCHANGED <<chat_messages, written>>
                       /\ response' = [response EXCEPT
                                         ![i] = Some([status |-> 200, type |-> "sql", id |-> query_id,
                                                      text |-> sql, explanation |-> explanation,
                                                      from_cache |-> FALSE])]
    /\ pc' = [pc EXCEPT ![i] = "idle"]
  /\ UNCHANGED <<sql_collection, req, process_question, gen, events, n_requests, fn>>
  /\ UNCHANGED sessionVars

-----------------------------------------------------------------------------
(* src/api/queries.py run_sql *)

RunSqlInputs == {<<" ">> \o sqlSelect \o <<"\n">>, sqlDelete, sqlDeleteNl}

\* the handler reads sql_request.session_id before its try block; RunSqlRequest has the
\* fields sql and question only, so the read raises AttributeError on every request:
\* the request is answered 500 before the safety check, the execution, the chart and
\* the result message
RunSql ==
  /\ ~InHandler
  /\ n_requests < MaxRequests
  /\ \E sql_in \in RunSqlInputs, question \in {None, Some(qOther)} :
       Arrive([endpoint |-> "run_sql", question |-> IF question = None THEN <<>> ELSE question.val,
               history |-> <<>>, session_id |-> None, user_id |-> 0, stream |-> FALSE,
               session_deleted |-> FALSE],
              "idle", <<>>, strip(sql_in), << >>,
              Some([status |-> 500, type |-> "AttributeError"]), <<>>)
  /\ UNCHANGED <<storeVars, fn>>
  /\ UNCHANGED sessionVars
-----------------------------------------------------------------------------
(* validate_sql_safety on its own: SQL texts built from a few pieces *)

\* the pieces an input may hold
MaxPieces == 3

txtDELETE == <<"D","E","L","E","T","E">>

SqlPieces ==
  { txtDELETE, lower(txtDELETE), <<"D","r","O","p">>, <<"u","p","d","a","t","e">>,
    <<DOTLESS_I,"n","s","e","r","t">>,
    <<" ">>, <<"\t">>, <<"\n">>, <<"U+00A0">>, <<"_">>, <<"x">> }

RECURSIVE SqlTexts(_)
SqlTexts(n) ==
  IF n = 0 THEN { <<>> }
  ELSE LET shorter == SqlTexts(n - 1)
       IN shorter \cup {s \o p : s \in shorter, p \in SqlPieces}

InitValidate ==
  /\ PipelineInit
  /\ DeploymentInit(OneSession)
  /\ fn \in {[op |-> "none", arg |-> sql, out |-> None] : sql \in SqlTexts(MaxPieces)}

\* one call of the validator on the input
ValidateSqlSafety ==
  /\ fn.op = "none"
  /\ fn' = [op |-> "validate_sql_safety", arg |-> fn.arg, out |-> Some(validate_sql_safety(fn.arg))]
  /\ UNCHANGED <<storeVars, pc, req, localVars, events, calls, response, n_requests>>
  /\ UNCHANGED sessionVars

NextValidate == ValidateSqlSafety

SpecValidate == InitValidate /\ [][NextValidate]_vars

-----------------------------------------------------------------------------
(* The semantic cache on its own: training and lookups *)

\* the number of question-SQL pairs trained into the collection
MaxDocs == 2

CacheQuestions == {qProje, qProje2, qEmployee, qOther}

\* vn.train(question, sql): one pair is added to the collection
CacheTrain ==
  /\ Cardinality(sql_collection) < MaxDocs
  /\ \E question \in CacheQuestions, sql \in SaveSqls :
       /\ sql_collection' = train(sql_collection, question, sql)
       /\ fn' = [op |-> "train", arg |-> question, sql |-> sql, out |-> None]
  /\ UNCHANGED <<chat_messages, sql_cache, pc, req, localVars, events, calls, response, n_requests>>
  /\ UNCHANGED sessionVars

\* check_semantic_cache(vn, question): the collection is queried and the result judged
CacheLookup ==
  /\ \E question \in CacheQuestions :
     \E result \in CacheQueryOutcomes(sql_collection, question) :
       fn' = [op |-> "check_semantic_cache", arg |-> question, result |-> result,
              out |-> check_semantic_cache(result)]
  /\ UNCHANGED <<storeVars, pc, req, localVars, events, calls, response, n_requests>>
  /\ UNCHANGED sessionVars

NextCache == CacheTrain \/ CacheLookup

SpecCache == Init /\ [][NextCache]_vars

-----------------------------------------------------------------------------
(* QueryService.clear_cache, run by the background training job while requests train *)

\* what clear_cache returns; removed and remaining record what the call did to the
\* collection: the documents it deleted and the documents left when it returned
ClearResult(success, deleted_count, removed, remaining) ==
  [op |-> "clear_cache", ids |-> {},
   out |-> Some([success |-> success, deleted_count |-> deleted_count]),
   removed |-> removed, remaining |-> remaining]

\* clear_cache up to vn.sql_collection.delete: without a sql_collection attribute the
\* call reports failure; else the items are fetched and counted, a failure of the
\* fetch counts as zero items, and zero items is reported as success
clear_cache(collection, has_collection, counted) ==
  LET item_count == IF counted THEN Cardinality(collection) ELSE 0
  IN IF ~has_collection THEN ClearResult(FALSE, 0, 0, collection)
     ELSE IF item_count = 0 THEN ClearResult(TRUE, 0, 0, collection)
     ELSE [op |-> "clear_cache.get", ids |-> collection, out |-> None]

\* hasattr(vn, 'sql_collection'), vn.sql_collection.get() and the count; a Vanna
\* instance without the attribute holds no document
ClearCacheGet ==
  /\ fn.op \in {"none", "clear_cache"}
  /\ \E has_collection \in (IF sql_collection = {} THEN BOOLEAN ELSE {TRUE}), counted \in BOOLEAN :
       fn' = clear_cache(sql_collection, has_collection, counted)
  /\ UNCHANGED <<storeVars, pc, req, localVars, events, calls, response, n_requests>>
  /\ UNCHANGED sessionVars

\* vn.sql_collection.delete(ids=...) of the fetched ids, or its failure, and the return
ClearCacheDelete ==
  /\ fn.op = "clear_cache.get"
  /\ \E deleted \in BOOLEAN :
       IF deleted
         THEN /\ sql_collection' = sql_collection \ fn.ids
              /\ fn' = ClearResult(TRUE, Cardinality(fn.ids),
                                    Cardinality(sql_collection \cap fn.ids), sql_collection')
         ELSE /\ fn' = ClearResult(FALSE, 0, 0, sql_collection)
              /\ UNCHANGED sql_collection
  /\ UNCHANGED <<chat_messages, sql_cache, pc, req, localVars, events, calls, response, n_requests>>
  /\ UNCHANGED sessionVars

\* vn.train(question, sql) of a save_query request served meanwhile
ClearCacheInsert ==
  /\ Cardinality(sql_collection) < MaxDocs
  /\ \E question \in CacheQuestions, sql \in SaveSqls :
       sql_collection' = train(sql_collection, question, sql)
  /\ UNCHANGED <<chat_messages, sql_cache, pc, req, localVars, events, calls, response, n_requests, fn>>
  /\ UNCHANGED sessionVars

NextClear == ClearCacheGet \/ ClearCacheDelete \/ ClearCacheInsert

SpecClear == Init /\ [][NextClear]_vars

-----------------------------------------------------------------------------
(* ScannerService.scan_and_train, run as background tasks on worker threads *)

\* the number of scans that are triggered
MaxScans == 3

\* no scan triggered yet; _is_running is False
InitScanner ==
  /\ PipelineInit
  /\ DeploymentInit(OneSession)
  /\ fn = [op |-> "none", is_running |-> FALSE, out |-> None,
           task |-> [t \in 1..MaxScans |-> "waiting"]]

\* a task starts and reads the flag: `if ScannerService._is_running`, with the return
\* of the branch taken when the flag is set
ScanCheck ==
  \E t \in 1..MaxScans :
    /\ fn.task[t] = "waiting"
    /\ fn' = [fn EXCEPT !.op = "scan_and_train",
                        !.task[t] = IF fn.is_running THEN "skipped" ELSE "checked",
                        !.out = IF fn.is_running
                                  THEN Some([success |-> FALSE, message |-> "Scan already in progress"])
                                  ELSE None]
    /\ UNCHANGED <<storeVars, pc, req, localVars, events, calls, response, n_requests>>
    /\ UNCHANGED sessionVars

\* `ScannerService._is_running = True`, and the scan begins
ScanStart ==
  \E t \in 1..MaxScans :
    /\ fn.task[t] = "checked"
    /\ fn' = [fn EXCEPT !.op = "scan_and_train", !.task[t] = "scanning", !.is_running = TRUE,
                        !.out = None]
    /\ UNCHANGED <<storeVars, pc, req, localVars, events, calls, response, n_requests>>
    /\ UNCHANGED sessionVars

\* the scan ends, by return or by exception; finally: `ScannerService._is_running = False`
ScanFinish ==
  \E t \in 1..MaxScans, success \in BOOLEAN :
    /\ fn.task[t] = "scanning"
    /\ fn' = [fn EXCEPT !.op = "scan_and_train", !.task[t] = "done", !.is_running = FALSE,
                        !.out = Some([success |-> success, message |-> ""])]
    /\ UNCHANGED <<storeVars, pc, req, localVars, events, calls, response, n_requests>>
    /\ UNCHANGED sessionVars

NextScanner == ScanCheck \/ ScanStart \/ ScanFinish

SpecScanner == InitScanner /\ [][NextScanner]_vars

-----------------------------------------------------------------------------
(* src/services/query_service.py: the legacy check_semantic_cache *)

\* the default of the similarity_threshold parameter, in hundredths
similarity_threshold == 85

\* ChromaDB_VectorStore.get_similar_question_sql(vn, question, n_results=1): the nearest
\* stored pair as a list of one, or an empty list; or an exception
get_similar_question_sql(collection, question) ==
  {Raised} \cup
  (IF collection = {} THEN {Some(<< >>)}
   ELSE {Some(<<d>>) : d \in {d \in collection :
                          \A e \in collection : Distance(question, d.question) <= Distance(question, e.question)}})

\* the legacy check_semantic_cache: the SQL of the first match when it is not empty; the
\* similarity_threshold parameter is not read
legacy_check_semantic_cache(similar_questions, threshold) ==
  IF similar_questions = Raised THEN None
  ELSE IF similar_questions.val = << >> THEN None
  ELSE IF similar_questions.val[1].sql /= <<>> THEN Some(similar_questions.val[1].sql)
  ELSE None

LegacyCacheLookup ==
  /\ \E question \in CacheQuestions :
     \E similar_questions \in get_similar_question_sql(sql_collection, question) :
       fn' = [op |-> "legacy_check_semantic_cache", arg |-> question, result |-> similar_questions,
              out |-> legacy_check_semantic_cache(similar_questions, similarity_threshold)]
  /\ UNCHANGED <<storeVars, pc, req, localVars, events, calls, response, n_requests>>
  /\ UNCHANGED sessionVars

NextLegacyCache == CacheTrain \/ LegacyCacheLookup

SpecLegacyCache == Init /\ [][NextLegacyCache]_vars

-----------------------------------------------------------------------------
(* src/main.py generate_sql: the legacy batched endpoint over the legacy cache *)

\* Step 0: with a history the question is rewritten by the model; an empty rewrite or
\* a failure of the rewrite keeps the original question
LegacyContextualize(question, history, contextual_question) ==
  IF history = <<>> THEN question
  ELSE IF contextual_question = None THEN question
  ELSE IF strip(contextual_question.val) = <<>> THEN question
  ELSE strip(contextual_question.val)

ContextualReplies == {None, Some(<< >>), Some(<<" ">> \o qEmployee)}

\* the body of the handler from the cache check on. The check is called as
\* QueryService.check_semantic_cache(vn, question, threshold=0.3), and the method's
\* parameter is named similarity_threshold: the call raises TypeError before the
\* method's body runs, and the handler's except clause answers 500 with type error.
\* The collection is not queried, vn.generate_sql is not called and sql_cache gets no
\* entry, whatever the question and whatever the collection holds
legacy_generate_sql(question) ==
  [response |-> [status |-> 500, type |-> "error",
                 suggestions |-> generate_query_variations(question)],
   entry |-> None, looked_up |-> FALSE, generated |-> FALSE]

MaxLegacyRequests == 2

LegacyQuestions == {qProje, qOther}

LegacyGenerateSql ==
  /\ n_requests < MaxLegacyRequests
  /\ n_requests' = n_requests + 1
  /\ \E asked \in LegacyQuestions, history \in Histories :
     \E contextual_question \in (IF history = <<>> THEN {None} ELSE ContextualReplies) :
       LET question == LegacyContextualize(asked, history, contextual_question)
           done == legacy_generate_sql(question)
       IN /\ fn' = [op |-> "legacy_generate_sql", asked |-> asked, history |-> history,
                    arg |-> question, looked_up |-> done.looked_up,
                    generated |-> done.generated, out |-> done.response]
          /\ sql_cache' = IF done.entry = None THEN sql_cache ELSE sql_cache \cup {done.entry.val}
  /\ UNCHANGED <<sql_collection, chat_messages, pc, req, localVars, events, calls, response>>
  /\ UNCHANGED sessionVars

NextLegacyGenerate == CacheTrain \/ LegacyGenerateSql

SpecLegacyGenerate == Init /\ [][NextLegacyGenerate]_vars

\* the cache holds no matching entry for the question of the request: the legacy
\* lookup, made on the collection, would return no SQL whatever the query gives
LegacyMiss ==
  \A similar_questions \in get_similar_question_sql(sql_collection, fn.arg) :
    legacy_check_semantic_cache(similar_questions, similarity_threshold) = None

\* C38: in the legacy batched generate_sql, when the cache holds no matching entry the
\* generation collaborator is called and the result is of type sql with from_cache
\* false or of type clarification; the cache-lookup step causes no result of type error
C38_LegacyMissGenerates ==
  fn.op = "legacy_generate_sql" /\ LegacyMiss =>
    /\ fn.generated
    /\ fn.out.type \in {"sql", "clarification"}
    /\ fn.out.type = "sql" => fn.out.from_cache = FALSE
-----------------------------------------------------------------------------
(* The message store on its own: appends and listings, with the database clock *)

\* the number of messages appended
MaxRows == 3

\* the number of seconds the database clock advances
MaxTicks == 2

TranscriptSessions == {"s1", "s2"}

\* the row of the INSERT: the autoincrement id, and datetime('now'), which has a
\* resolution of one second
InsertedRow(msgs, session_id, role, content, sql_query, data, plotly_json, now) ==
  LET row == add_message(msgs, session_id, role, content, sql_query, data, plotly_json)[Len(msgs) + 1]
  IN [id |-> Len(msgs) + 1, created_at |-> now] @@ row

\* the default of get_session_messages' limit parameter
default_limit == 100

\* a column of a listed message that holds JSON: parsed when it is not empty
ParsedColumn(stored) ==
  IF stored = None THEN None ELSE Some(json_loads(stored.val))

\* SELECT id, role, content, sql_query as sql, data, plotly_json, created_at
SelectedMessage(row) ==
  [id |-> row.id, role |-> row.role, content |-> row.content, sql |-> row.sql_query,
   data |-> ParsedColumn(row.data), plotly_json |-> ParsedColumn(row.plotly_json),
   created_at |-> row.created_at]

\* a variant that sorts the rows from the latest to the earliest
OrderByCreatedAt_descending(msgs, ids) ==
  LET Before(j, i) ==
        \/ msgs[j].created_at > msgs[i].created_at
        \/ msgs[j].created_at = msgs[i].created_at /\ msgs[j].id > msgs[i].id
  IN [k \in 1..Cardinality(ids) |->
        CHOOSE i \in ids : Cardinality({j \in ids : Before(j, i)}) = k - 1]

\* ORDER BY created_at ASC over the rows ids: ascending in created_at, and the rows
\* that share their created_at in the order SQLite visits them, that of their ids
OrderByCreatedAt(msgs, ids) ==
  LET Before(j, i) ==
        \/ msgs[j].created_at < msgs[i].created_at
        \/ msgs[j].created_at = msgs[i].created_at /\ msgs[j].id < msgs[i].id
  IN [k \in 1..Cardinality(ids) |->
        CHOOSE i \in ids : Cardinality({j \in ids : Before(j, i)}) = k - 1]

\* ChatService.get_session_messages: nothing for a session that does not exist or is
\* another user's; else SELECT ... WHERE session_id = ? ORDER BY created_at ASC LIMIT ?
\* with the JSON columns parsed
get_session_messages(msgs, session_id, user_id, limit) ==
  IF get_session_by_id(session_id, user_id) = {} THEN << >>
  ELSE LET ids == {i \in 1..Len(msgs) : msgs[i].session_id = session_id}
           ordered == OrderByCreatedAt(msgs, ids)
       IN [i \in 1..Min({Len(ordered), limit}) |-> SelectedMessage(msgs[ordered[i]])]

InitTranscript ==
  /\ PipelineInit
  /\ DeploymentInit(TwoSessions)
  /\ fn = [op |-> "none", now |-> 0, out |-> None]

\* ChatService.add_message: one row is inserted with the clock's current second
TranscriptAppend ==
  /\ Len(chat_messages) < MaxRows
  /\ \E session_id \in TranscriptSessions, role \in {"user", "assistant"} :
       chat_messages' = Append(chat_messages,
                               InsertedRow(chat_messages, session_id, role, qOther,
                                           None, None, None, fn.now))
  /\ fn' = [op |-> "add_message", now |-> fn.now, out |-> None]
  /\ UNCHANGED <<sql_collection, sql_cache, pc, req, localVars, events, calls, response, n_requests>>
  /\ UNCHANGED sessionVars

\* a second passes
TranscriptTick ==
  /\ fn.now < MaxTicks
  /\ fn' = [op |-> "tick", now |-> fn.now + 1, out |-> None]
  /\ UNCHANGED <<storeVars, pc, req, localVars, events, calls, response, n_requests>>
  /\ UNCHANGED sessionVars

\* ChatService.get_session_messages of a session for a user, with the default limit
TranscriptList ==
  /\ \E session_id \in TranscriptSessions, user_id \in Users :
       fn' = [op |-> "get_session_messages", now |-> fn.now, arg |-> session_id,
              user_id |-> user_id,
              out |-> Some(get_session_messages(chat_messages, session_id, user_id, default_limit))]
  /\ UNCHANGED <<storeVars, pc, req, localVars, events, calls, response, n_requests>>
  /\ UNCHANGED sessionVars

\* src/api/chat.py GET /chat/{session_id}: 404 for a session that is not the user's,
\* else the session's messages as get_session_messages lists them
RootGetSessionMessages ==
  /\ \E session_id \in TranscriptSessions, user_id \in Users :
       fn' = [op |-> "root_get_session_messages", now |-> fn.now, arg |-> session_id,
              user_id |-> user_id,
              status |-> IF get_session_by_id(session_id, user_id) = {} THEN 404 ELSE 200,
              out |-> IF get_session_by_id(session_id, user_id) = {} THEN None
                      ELSE Some(get_session_messages(chat_messages, session_id, user_id,
                                                     default_limit))]
  /\ UNCHANGED <<storeVars, pc, req, localVars, events, calls, response, n_requests>>
  /\ UNCHANGED sessionVars

NextTranscript == TranscriptAppend \/ TranscriptTick \/ TranscriptList \/ RootGetSessionMessages

SpecTranscript == InitTranscript /\ [][NextTranscript]_vars

-----------------------------------------------------------------------------
(* ChatService.delete_session over chat_sessions and chat_messages *)

\* two sessions of two users; foreign-key enforcement is a property of the SQLite build
InitSessions ==
  /\ PipelineInit
  /\ DeploymentInit(TwoSessions)
  /\ fn = [op |-> "none", arg |-> "", user_id |-> 0, out |-> FALSE, changed |-> FALSE]

\* ChatService.add_message with a session id, of a session that exists or not
SessionAppend ==
  /\ Len(chat_messages) < MaxRows
  /\ \E session_id \in TranscriptSessions, role \in {"user", "assistant"} :
       chat_messages' = add_message(chat_messages, session_id, role, qOther, None, None, None)
  /\ fn' = [fn EXCEPT !.op = "add_message"]
  /\ UNCHANGED <<sql_collection, sql_cache, pc, req, localVars, events, calls, response, n_requests>>
  /\ UNCHANGED sessionVars

\* ChatService.delete_session(session_id, user_id) and the bool it returns
DeleteSession ==
  /\ \E session_id \in TranscriptSessions, user_id \in Users :
       LET after == delete_session(chat_sessions, chat_messages, session_id, user_id, foreign_keys)
       IN /\ chat_messages' = after.messages
          /\ chat_sessions' = after.sessions
          /\ fn' = [fn EXCEPT !.op = "delete_session",
                              !.arg = session_id, !.user_id = user_id, !.out = after.out,
                              !.changed = (after.sessions /= chat_sessions \/ after.messages /= chat_messages)]
  /\ UNCHANGED <<sql_collection, sql_cache, pc, req, localVars, events, calls, response, n_requests>>
  /\ UNCHANGED foreign_keys

NextSessions == SessionAppend \/ DeleteSession

SpecSessions == InitSessions /\ [][NextSessions]_vars
-----------------------------------------------------------------------------
(* ChatService.toggle_pin_session and PATCH /chat/{session_id}/pin *)

\* the number of toggle requests started
MaxToggles == 3

\* the requests that can be in progress at once
Callers == {"c1", "c2"}

\* SELECT is_pinned FROM chat_sessions WHERE id = ? AND user_id = ?
pin_check_query(sessions, session_id, user_id) ==
  {r \in sessions : r.id = session_id /\ r.user_id = user_id}

\* new_pin = 1 if current_pin == 0 else 0
new_pin(current_pin) == IF current_pin = 0 THEN 1 ELSE 0

\* UPDATE chat_sessions SET is_pinned = ? WHERE id = ? AND user_id = ?: the rows
\* after the statement and the number of rows it changed
pin_update(sessions, pin, session_id, user_id) ==
  [sessions |-> {IF r.id = session_id /\ r.user_id = user_id THEN [r EXCEPT !.is_pinned = pin] ELSE r :
                   r \in sessions},
   rows |-> Cardinality(pin_check_query(sessions, session_id, user_id))]

IdleCaller == [pc |-> "idle", session_id |-> "", user_id |-> 0, pin |-> 0]

\* session s1 of user 1 and s2 of user 2, pinned or not; initial keeps the first flags
\* and toggled counts the successful toggles of each session
InitPin ==
  /\ PipelineInit
  /\ \E p1 \in {0, 1} :
       /\ DeploymentInit({[id |-> "s1", user_id |-> 1, is_pinned |-> p1],
                          [id |-> "s2", user_id |-> 2, is_pinned |-> 0]})
       /\ fn = [op |-> "none",
                initial |-> [id \in TranscriptSessions |-> IF id = "s1" THEN p1 ELSE 0],
                toggled |-> [id \in TranscriptSessions |-> 0],
                caller |-> [c \in Callers |-> IdleCaller],
                started |-> 0, arg |-> "", user_id |-> 0, out |-> FALSE, changed |-> FALSE]

\* toggle_pin_session up to the check: the row is read on its own connection; with no
\* row the method returns False and the endpoint answers 404
ToggleCheck(c) ==
  /\ fn.caller[c].pc = "idle"
  /\ fn.started < MaxToggles
  /\ \E session_id \in TranscriptSessions, user_id \in Users :
       LET result == pin_check_query(chat_sessions, session_id, user_id)
       IN fn' = [fn EXCEPT !.op = "toggle_check", !.started = @ + 1,
                           !.arg = session_id, !.user_id = user_id,
                           !.out = FALSE, !.changed = FALSE,
                           !.caller[c] =
                              IF result = {} THEN IdleCaller
                              ELSE [pc |-> "update", session_id |-> session_id, user_id |-> user_id,
                                    pin |-> new_pin((CHOOSE r \in result : TRUE).is_pinned)]]
  /\ UNCHANGED <<storeVars, pc, req, localVars, events, calls, response, n_requests>>
  /\ UNCHANGED sessionVars

\* toggle_pin_session from the update on, on a second connection: rows > 0 is the
\* method's result and the endpoint's success
ToggleUpdate(c) ==
  /\ fn.caller[c].pc = "update"
  /\ LET mine == fn.caller[c]
         after == pin_update(chat_sessions, mine.pin, mine.session_id, mine.user_id)
     IN /\ chat_sessions' = after.sessions
        /\ fn' = [fn EXCEPT !.op = "toggle_update",
                            !.arg = mine.session_id, !.user_id = mine.user_id,
                            !.out = (after.rows > 0),
                            !.changed = (after.sessions /= chat_sessions),
                            !.toggled[mine.session_id] = @ + (IF after.rows > 0 THEN 1 ELSE 0),
                            !.caller[c] = IdleCaller]
  /\ UNCHANGED <<storeVars, pc, req, localVars, events, calls, response, n_requests>>
  /\ UNCHANGED foreign_keys

NextPin == \E c \in Callers : ToggleCheck(c) \/ ToggleUpdate(c)

SpecPin == InitPin /\ [][NextPin]_vars

\* the pinned flag of a session
PinnedFlag(id) == (CHOOSE r \in chat_sessions : r.id = id).is_pinned

\* C40: once no toggle is in progress, the flag of a session equals its initial flag
\* when the number of successful toggles is even and its negation when odd, also when
\* the toggles overlapped; a toggle by a caller who does not own the session changes
\* nothing and reports failure
C40_ToggleParity ==
  /\ (\A c \in Callers : fn.caller[c].pc = "idle") =>
       \A id \in TranscriptSessions :
         PinnedFlag(id) = (IF fn.toggled[id] % 2 = 0 THEN fn.initial[id] ELSE new_pin(fn.initial[id]))
  /\ fn.op = "toggle_check" /\ pin_check_query(chat_sessions, fn.arg, fn.user_id) = {} =>
       ~fn.out /\ ~fn.changed

-----------------------------------------------------------------------------
(* The message store: a result message is appended to a transcript and read back *)

\* the number of result messages appended
MaxAppends == 2

\* the lengths of the transcript before the appends, around the listing's limit
PriorLengths == {0, 1, default_limit - 1, default_limit}

\* the transcript of session s1 after n messages, one per second
PriorTranscript(n) ==
  [i \in 1..n |->
     [id |-> i, created_at |-> i, session_id |-> "s1",
      role |-> IF i % 2 = 1 THEN "user" ELSE "assistant",
      content |-> qOther, sql_query |-> None, data |-> None, plotly_json |-> None]]

dfEmpty ==
  [columns |-> << [name |-> <<"n","a","m","e">>, dtype |-> "object"],
                  [name |-> <<"s","a","l","a","r","y">>, dtype |-> "int64"] >>,
   rows |-> << >>]

\* results of 0, 4 and 12 rows
RoundTripFrames == {dfEmpty, dfEmployees, dfMonths}

InitRoundTrip ==
  /\ sql_collection = {}
  /\ chat_messages \in {PriorTranscript(n) : n \in PriorLengths}
  /\ sql_cache = {}
  /\ pc = <<>>
  /\ req = <<>>
  /\ process_question = <<>>
  /\ raw_sql_response = <<>>
  /\ full_sql = <<>>
  /\ gen = <<>>
  /\ events = <<>>
  /\ calls = <<>>
  /\ response = <<>>
  /\ written = <<>>
  /\ n_requests = 0
  /\ fn = [op |-> "none", now |-> Len(chat_messages), appended |-> 0, out |-> None]
  /\ DeploymentInit(TwoSessions)

\* ChatService.add_message of a result message: the arguments are those a caller
\* holding the result df passes, the first 10 rows as records and the chart when the
\* result is chart-worthy; a second may pass before the call
RoundTripAppend ==
  /\ fn.appended < MaxAppends
  /\ \E session_id \in TranscriptSessions, df \in RoundTripFrames, seconds \in {0, 1} :
       LET data == HeadRecords(df, 10)
           plotly_json == IF should_generate_chart(df, sqlSelect)
                            THEN generate_plotly_chart(df, sqlSelect) ELSE None
           now == fn.now + seconds
       IN /\ chat_messages' = Append(chat_messages,
                                     InsertedRow(chat_messages, session_id, "assistant", txtResults,
                                                 Some(sqlSelect), Some(data), plotly_json, now))
          /\ fn' = [op |-> "add_message", now |-> now, appended |-> fn.appended + 1,
                    arg |-> session_id, id |-> Len(chat_messages) + 1, df |-> df,
                    data |-> data, out |-> None]
  /\ UNCHANGED <<sql_collection, sql_cache, pc, req, localVars, events, calls, response, n_requests>>
  /\ UNCHANGED sessionVars

\* ChatService.get_session_messages of the session of the message just appended, for
\* a user, with the default limit
RoundTripList ==
  /\ fn.op = "add_message"
  /\ \E user_id \in Users :
       fn' = [fn EXCEPT !.op = "get_session_messages",
                        !.out = Some([user_id |-> user_id,
                                      listing |-> get_session_messages(chat_messages, fn.arg,
                                                                       user_id, default_limit)])]
  /\ UNCHANGED <<storeVars, pc, req, localVars, events, calls, response, n_requests>>
  /\ UNCHANGED sessionVars

NextRoundTrip == RoundTripAppend \/ RoundTripList

SpecRoundTrip == InitRoundTrip /\ [][NextRoundTrip]_vars
-----------------------------------------------------------------------------
(* The error translator on its own *)

\* the longest raw error is this much longer than the 100 characters the fallback keeps
MaxErrorExcess == 2

\* a raw error of n characters
ErrorText(n) == [i \in 1..n |-> IF i % 7 = 0 THEN " " ELSE IF i % 2 = 0 THEN "r" ELSE "e"]

ErrorTexts ==
  {errNoColumn} \cup {ErrorText(n) : n \in (0..2) \cup (98..(100 + MaxErrorExcess))}

\* what vn.submit_prompt does for the translator: it raises, or returns a text
TranslatorReplies ==
  FriendlyReplies \cup {Some(<<>>), Some(<<"\n", "\t">>), Some(<<"U+000C">>), Some(<<"B","i","l","g","i"," ","y","o","k">>)}

InitTranslate ==
  /\ PipelineInit
  /\ DeploymentInit(OneSession)
  /\ fn \in {[op |-> "none", reply |-> reply, question |-> question, arg |-> error_msg, out |-> None] :
              reply \in TranslatorReplies, question \in {qOther}, error_msg \in ErrorTexts}

\* one call of the translator; it returns a text on every path
GenerateFriendlyError ==
  /\ fn.op = "none"
  /\ fn' = [fn EXCEPT !.op = "generate_friendly_error",
                      !.out = Some(generate_friendly_error(fn.reply, fn.question, sqlSelect, fn.arg))]
  /\ UNCHANGED <<storeVars, pc, req, localVars, events, calls, response, n_requests>>
  /\ UNCHANGED sessionVars

NextTranslate == GenerateFriendlyError

SpecTranslate == InitTranslate /\ [][NextTranslate]_vars

-----------------------------------------------------------------------------
(* The chart decision and the chart builder on their own *)

\* column lists of results: none, one, text only, text and numeric, several numeric,
\* a date-named category, a datetime column, five and six columns, a repeated name
ChartColumnLists ==
  { << >>,
    << [name |-> <<"n","a","m","e">>, dtype |-> "object"],
       [name |-> <<"a","g","e">>, dtype |-> "int32"] >>,
    << [name |-> <<"n","a","m","e">>, dtype |-> "object"] >>,
    << [name |-> <<"s","a","l","a","r","y">>, dtype |-> "int64"] >>,
    << [name |-> <<"n","a","m","e">>, dtype |-> "object"],
       [name |-> <<"d","e","p","a","r","t","m","e","n","t">>, dtype |-> "object"] >>,
    << [name |-> <<"n","a","m","e">>, dtype |-> "object"],
       [name |-> <<"s","a","l","a","r","y">>, dtype |-> "int64"] >>,
    << [name |-> <<"n","a","m","e">>, dtype |-> "object"],
       [name |-> <<"d","e","p","a","r","t","m","e","n","t">>, dtype |-> "object"],
       [name |-> <<"s","a","l","a","r","y">>, dtype |-> "int64"] >>,
    << [name |-> <<"n","a","m","e">>, dtype |-> "object"],
       [name |-> <<"s","a","l","a","r","y">>, dtype |-> "int64"],
       [name |-> <<"b","o","n","u","s">>, dtype |-> "float64"] >>,
    << [name |-> <<"m","o","n","t","h">>, dtype |-> "object"],
       [name |-> <<"s","a","l","a","r","y">>, dtype |-> "int64"],
       [name |-> <<"b","o","n","u","s">>, dtype |-> "float64"] >>,
    << [name |-> <<"n","a","m","e">>, dtype |-> "object"],
       [name |-> <<"h","i","r","e","d">>, dtype |-> "datetime64"],
       [name |-> <<"s","a","l","a","r","y">>, dtype |-> "int64"],
       [name |-> <<"b","o","n","u","s">>, dtype |-> "float64"] >>,
    << [name |-> <<"n","a","m","e">>, dtype |-> "object"],
       [name |-> <<"s","a","l","a","r","y">>, dtype |-> "int64"],
       [name |-> <<"b","o","n","u","s">>, dtype |-> "float64"],
       [name |-> <<"a","g","e">>, dtype |-> "int32"],
       [name |-> <<"t","o","t","a","l">>, dtype |-> "float32"] >>,
    << [name |-> <<"n","a","m","e">>, dtype |-> "object"],
       [name |-> <<"d","e","p","a","r","t","m","e","n","t">>, dtype |-> "object"],
       [name |-> <<"s","a","l","a","r","y">>, dtype |-> "int64"],
       [name |-> <<"b","o","n","u","s">>, dtype |-> "float64"],
       [name |-> <<"a","g","e">>, dtype |-> "int32"],
       [name |-> <<"t","o","t","a","l">>, dtype |-> "float32"] >>,
    << [name |-> <<"n","a","m","e">>, dtype |-> "object"],
       [name |-> <<"n","a","m","e">>, dtype |-> "object"],
       [name |-> <<"s","a","l","a","r","y">>, dtype |-> "int64"] >>,
    << [name |-> <<"h","i","r","e","d">>, dtype |-> "datetime64"],
       [name |-> <<"s","a","l","a","r","y">>, dtype |-> "int64"] >> }

ChartRowCounts == {0, 1, 2, 5, 100, 101}

ChartFrames ==
  {[columns |-> columns, rows |-> [i \in 1..n |-> i]] : columns \in ChartColumnLists, n \in ChartRowCounts}

\* SELECT name, department, salary FROM employees ORDER BY salary DESC
\* SELECT department, COUNT(*) FROM employees GROUP BY department
\* SELECT name, salary FROM employees
\* SELECT owner, price FROM accounts ORDER BY price
\* SELECT name, age FROM employees ORDER BY name DESC
\* SELECT name, SUM(salary) FROM employees GROUP BY name ORDER BY salary
ChartSqls ==
  { <<"S","E","L","E","C","T"," ","n","a","m","e",","," ","d","e","p","a","r","t","m","e","n","t",","," ","s","a","l","a","r","y"," ","F","R","O","M"," ","e","m","p","l","o","y","e","e","s"," ","O","R","D","E","R"," ","B","Y"," ","s","a","l","a","r","y"," ","D","E","S","C">>,
    <<"S","E","L","E","C","T"," ","d","e","p","a","r","t","m","e","n","t",","," ","C","O","U","N","T","(","*",")"," ","F","R","O","M"," ","e","m","p","l","o","y","e","e","s"," ","G","R","O","U","P"," ","B","Y"," ","d","e","p","a","r","t","m","e","n","t">>,
    <<"S","E","L","E","C","T"," ","n","a","m","e",","," ","s","a","l","a","r","y"," ","F","R","O","M"," ","e","m","p","l","o","y","e","e","s">>,
    <<"S","E","L","E","C","T"," ","o","w","n","e","r",","," ","p","r","i","c","e"," ","F","R","O","M"," ","a","c","c","o","u","n","t","s"," ","O","R","D","E","R"," ","B","Y"," ","p","r","i","c","e">>,
    <<"S","E","L","E","C","T"," ","n","a","m","e",","," ","a","g","e"," ","F","R","O","M"," ","e","m","p","l","o","y","e","e","s"," ","O","R","D","E","R"," ","B","Y"," ","n","a","m","e"," ","D","E","S","C">>,
    <<"S","E","L","E","C","T"," ","n","a","m","e",","," ","S","U","M","(","s","a","l","a","r","y",")"," ","F","R","O","M"," ","e","m","p","l","o","y","e","e","s"," ","G","R","O","U","P"," ","B","Y"," ","n","a","m","e"," ","O","R","D","E","R"," ","B","Y"," ","s","a","l","a","r","y">> }

InitChart ==
  /\ PipelineInit
  /\ DeploymentInit(OneSession)
  /\ fn \in {[op |-> "none", df |-> df, arg |-> sql, should |-> FALSE, out |-> None] :
              df \in ChartFrames, sql \in ChartSqls}

\* the two calls the execute step makes on a result: the decision, then the builder
BuildChart ==
  /\ fn.op = "none"
  /\ fn' = [fn EXCEPT !.op = "generate_plotly_chart",
                      !.should = should_generate_chart(fn.df, fn.arg),
                      !.out = generate_plotly_chart(fn.df, fn.arg)]
  /\ UNCHANGED <<storeVars, pc, req, localVars, events, calls, response, n_requests>>
  /\ UNCHANGED sessionVars

NextChart == BuildChart

SpecChart == InitChart /\ [][NextChart]_vars

-----------------------------------------------------------------------------
(* The extraction step on its own *)

\* raw responses are built of an opening (nothing, a statement, an identifier that starts
\* with SELECT), a body (nothing, a bare statement, a statement that ends in a semicolon,
\* a fenced block tagged sql, one with an upper-case tag and blank lines, a tag with no
\* line break after it, a fenced block without a tag) and an ending (nothing, prose)
RawResponses ==
  LET openings == { << >>,
                    <<"S","E","L","E","C","T"," ","2",";"," ">>,
                    <<"S","E","L","E","C","T","E","D"," ","x",";"," ">>,
                    <<E_ACUTE,"S","E","L","E","C","T"," ","3",";"," ">> }
      bodies == { << >>,
                  <<"S","E","L","E","C","T"," ","1">>,
                  <<" ","s","e","l","e","c","t"," ","1",";"," ">>,
                  <<BT,BT,BT,"s","q","l","\n","S","E","L","E","C","T"," ","1",";","\n",BT,BT,BT>>,
                  <<BT,BT,BT,"S","Q","L"," "," ","\n","\n","S","E","L","E","C","T"," ","1","\n",BT,BT,BT>>,
                  <<BT,BT,BT,"s","q","l"," ","S","E","L","E","C","T"," ","1",BT,BT,BT>>,
                  <<BT,BT,BT,"\n","S","E","L","E","C","T"," ","1",";","\n",BT,BT,BT>>,
                  <<BT,BT,BT,LONG_S,"q","l","U+000B","\n","S","E","L","E","C","T"," ","1","\n",BT,BT,BT>> }
      endings == { << >>, <<" ","o","k","\n">> }
  IN {o \o b \o e : o \in openings, b \in bodies, e \in endings}

InitExtract ==
  /\ PipelineInit
  /\ DeploymentInit(OneSession)
  /\ fn \in {[op |-> "none", arg |-> raw, has_extract_sql |-> has_extract_sql,
               extracted |-> None, out |-> None] :
              raw \in RawResponses, has_extract_sql \in BOOLEAN}

\* step 3 on a finished response
ExtractSql ==
  /\ fn.op = "none"
  /\ \E extracted \in VnExtractResults(fn.arg) :
       fn' = [fn EXCEPT !.op = "extract_sql",
                        !.extracted = IF fn.has_extract_sql THEN Some(extracted) ELSE None,
                        !.out = Some(IF fn.has_extract_sql THEN extracted ELSE ManualExtract(fn.arg))]
  /\ UNCHANGED <<storeVars, pc, req, localVars, events, calls, response, n_requests>>
  /\ UNCHANGED sessionVars

NextExtract == ExtractSql

SpecExtract == InitExtract /\ [][NextExtract]_vars

\* the chat handlers of both trees, run_sql and save_query
NextChat ==
  \/ SendMessage
  \/ CreateNewSession
  \/ ChatDeleteSession
  \/ RootCreateNewSession
  \/ RootDeleteSession
  \/ RunSql
  \/ SaveQuery

\* main.py generate_sql, with the training that feeds its cache and the requests of
\* send_message served by the same application
NextGenerate ==
  \/ GenerateSql
  \/ GenerateSqlStreamStart
  \/ GenerateSqlToken
  \/ GenerateSqlStreamRaises
  \/ GenerateSqlMetadata
  \/ GenerateSqlDone
  \/ ConsumerLeaves
  \/ GenerateSqlStandard
  \/ SendMessage
  \/ SaveQuery

Next ==
  \/ NextChat
  \/ NextGenerate

Spec == Init /\ [][Next]_vars

SpecChat == Init /\ [][NextChat]_vars

SpecGenerate == Init /\ [][NextGenerate]_vars

-----------------------------------------------------------------------------
(* Observations of the requests *)

EventsOf(i, type) == {e \in 1..Len(events[i]) : events[i][e].type = type}

CallsOf(i, op) == {c \in 1..Len(calls[i]) : calls[i][c].op = op}

\* the result and error events
Outcomes(i) == EventsOf(i, "result") \cup EventsOf(i, "error")

\* the messages the request has added to the transcript
InvocationMessages(i) == [k \in 1..Len(written[i]) |-> chat_messages[written[i][k]]]

IsAssistant(m) == m.role = "assistant"

IsUser(m) == m.role = "user"

AssistantMessages(i) == SelectSeq(InvocationMessages(i), IsAssistant)

UserMessages(i) == SelectSeq(InvocationMessages(i), IsUser)

\* a request of the pipeline
Pipeline(i) == req[i].endpoint \in {"send_message", "generate_sql"}

\* the consumer has left during the invocation
Disconnected(i) == CallsOfDisconnect(calls[i]) /= {}

\* an invocation in streaming mode that has ended with its consumer still there
StreamEnded(i) == Pipeline(i) /\ req[i].stream /\ pc[i] = "idle" /\ ~Disconnected(i)

CacheHit(i) == \E c \in CallsOf(i, "check_semantic_cache") : calls[i][c].role = "hit"

CacheMiss(i) == \E c \in CallsOf(i, "check_semantic_cache") : calls[i][c].role = "miss"

StreamHit(i) == Pipeline(i) /\ req[i].stream /\ CacheHit(i)

StreamMiss(i) == Pipeline(i) /\ req[i].stream /\ CacheMiss(i)

\* no request has deleted the session of the invocation since it began
SessionKept(i) == ~req[i].session_deleted

\* the characters that may delimit a standalone token
TokenSeparators == {" ", "\t", "\n"}

\* a denylisted keyword, in any letter case, between separators or string edges
HasStandaloneKeyword(sql) ==
  \E k \in 1..Len(forbidden_keywords) : \E i \in 1..Len(sql) :
    LET keyword == forbidden_keywords[k]
        after == i + Len(keyword)
    IN /\ MatchAtCI(sql, i, keyword)
       /\ (i = 1 \/ sql[i - 1] \in TokenSeparators)
       /\ (after > Len(sql) \/ sql[after] \in TokenSeparators)

\* the distance from the question to the nearest stored question
NearestDistance(question) ==
  Min({Distance(question, d.question) : d \in sql_collection})

\* the SQL texts stored for questions at distance 0 from the question
StoredSqlAtZero(question) ==
  {d.sql : d \in {e \in sql_collection : Distance(question, e.question) = 0}}

\* a lookup of the semantic cache has just been made
LookedUp == fn.op = "check_semantic_cache"

\* the collection's query raised during the invocation's cache lookup
LookupFailed(i) == \E c \in CallsOf(i, "sql_collection.query") : calls[i][c].role = "raised"

\* the generation collaborator was asked for SQL
GenerationCalls(i) == CallsOf(i, "generate_sql_stream") \cup CallsOf(i, "generate_sql")

\* the texts of the errors surfaced to the caller so far
SurfacedErrors(i) ==
  {events[i][e].body.error : e \in EventsOf(i, "error")}
    \cup (IF response[i] /= None /\ response[i].val.type = "error"
            THEN {response[i].val.error} ELSE {})

\* the contextualizer's calls of the generation collaborator, and their returns
ContextualizerCalls(i) ==
  {c \in CallsOf(i, "submit_prompt") : calls[i][c].role = "contextualize"}

ContextualizerReturns(i) == CallsOf(i, "submit_prompt.return")

\* the question the pipeline is to proceed with, from what the contextualizer returned
ExpectedQuestion(i) ==
  IF ContextualizerReturns(i) = {} THEN req[i].question
  ELSE LET r == calls[i][CHOOSE c \in ContextualizerReturns(i) : TRUE]
       IN IF r.role = "raised" \/ strip(r.text) = <<>> THEN req[i].question ELSE strip(r.text)

\* the SQL generation was called and raised: in the standard call, or in the stream
GenerationFailed(i) ==
  \/ \E g \in CallsOf(i, "generate_sql") : calls[i][g].role = "raised"
  \/ \E g \in CallsOf(i, "generate_sql_stream.return") : calls[i][g].role = "raised"

\* every surfaced error has its cause in the generation
ErrorsHaveCause(i) == SurfacedErrors(i) /= {} => GenerationFailed(i)

\* a pipeline invocation in batched delivery that has ended
BatchedEnded(i) == Pipeline(i) /\ ~req[i].stream /\ pc[i] = "idle"
-----------------------------------------------------------------------------
(* Claims *)

\* C2: an invocation answered by a stream that has ended, its consumer still there,
\* sent exactly one result or error event and exactly one done marker, the marker
\* being its last event
C2_OneOutcomeThenDone ==
  \A i \in Requests :
    StreamEnded(i) /\ response[i] = Some([status |-> 200, type |-> "StreamingResponse"]) =>
      /\ Cardinality(Outcomes(i)) = 1
      /\ Cardinality(EventsOf(i, "done")) = 1
      /\ events[i] /= <<>>
      /\ events[i][Len(events[i])].type = "done"

\* C3: a streaming cache miss that has ended, its consumer still there, sent a
\* metadata event, every result or error event follows a metadata event, and every
\* token precedes every metadata event
C3_MetadataBeforeEveryOutcome ==
  \A i \in Requests :
    StreamMiss(i) /\ StreamEnded(i) =>
      /\ EventsOf(i, "metadata") /= {}
      /\ \A o \in Outcomes(i) : \E m \in EventsOf(i, "metadata") : m < o
      /\ \A t \in EventsOf(i, "token") : \A m \in EventsOf(i, "metadata") : t < m

\* C4: a streaming invocation that is a cache hit sends exactly one metadata event,
\* flagged from_cache, and no token event
C4_CacheHitEvents ==
  \A i \in Requests :
    StreamHit(i) =>
      /\ Cardinality(EventsOf(i, "metadata")) = 1
      /\ \A m \in EventsOf(i, "metadata") :
           "from_cache" \in DOMAIN events[i][m].body /\ events[i][m].body.from_cache = TRUE
      /\ EventsOf(i, "token") = {}

\* C6: an invocation on a session that has ended, its consumer still there, after its
\* SQL generation failed has called the error translator and has saved an assistant
\* message
C6_ErrorsTranslatedAndPersisted ==
  \A i \in Requests :
    /\ Pipeline(i)
    /\ req[i].session_id /= None
    /\ pc[i] = "idle"
    /\ ~Disconnected(i)
    /\ GenerationFailed(i)
    => /\ CallsOf(i, "generate_friendly_error") /= {}
       /\ Len(AssistantMessages(i)) >= 1

\* the collaborators the user's message must precede
PipelineCalls ==
  {"check_semantic_cache", "submit_prompt", "generate_sql_stream", "generate_sql", "run_sql"}

PipelineStarted(i) ==
  /\ Pipeline(i)
  /\ \E c \in 1..Len(calls[i]) : calls[i][c].op \in PipelineCalls

\* send_message has answered a request of the session's owner, or generate_sql has
\* called a collaborator of the pipeline
Invoked(i) ==
  \/ PipelineStarted(i)
  \/ /\ req[i].endpoint = "send_message"
     /\ pc[i] = "idle"
     /\ SessionKept(i)
     /\ get_session_by_id(req[i].session_id.val, req[i].user_id) /= {}

\* C9: every invocation has saved the user's question exactly once, as its first
\* message and before every call of the cache lookup, the contextualizer, the
\* generation and the execution
C9_QuestionSavedOnEveryInvocation ==
  \A i \in Requests :
    Invoked(i) =>
      /\ Len(UserMessages(i)) = 1
      /\ InvocationMessages(i)[1].role = "user"
      /\ InvocationMessages(i)[1].content = req[i].question
      /\ Cardinality({u \in CallsOf(i, "add_message") : calls[i][u].role = "user"}) = 1
      /\ \E u \in CallsOf(i, "add_message") :
           /\ calls[i][u].role = "user"
           /\ \A c \in 1..Len(calls[i]) : calls[i][c].op \in PipelineCalls => u < c

\* C10: the validator rejects every SQL text that holds a denylisted keyword, in any
\* letter case, as a token between spaces, tabs, newlines or string edges
C10_StandaloneKeywordRejected ==
  fn.op = "validate_sql_safety" /\ HasStandaloneKeyword(fn.arg) => ~fn.out.val.ok

\* the places where a denylisted keyword occurs in the text, in any letter case
KeywordOccurrences(sql) ==
  {<<k, i>> \in (1..Len(forbidden_keywords)) \X (1..Len(sql)) :
     MatchAtCI(sql, i, forbidden_keywords[k])}

\* the occurrence touches an identifier character on one side at least
InsideIdentifier(sql, k, i) ==
  LET after == i + Len(forbidden_keywords[k])
  IN \/ (i > 1 /\ IsWordChar(sql[i - 1]))
     \/ (after <= Len(sql) /\ IsWordChar(sql[after]))

\* C11: the validator accepts every SQL text whose denylisted keywords all occur
\* inside longer identifiers
C11_SubstringOfIdentifierAccepted ==
  /\ fn.op = "validate_sql_safety"
  /\ \A o \in KeywordOccurrences(fn.arg) : InsideIdentifier(fn.arg, o[1], o[2])
  => fn.out.val.ok

C11_Witness ==
  /\ fn.op = "validate_sql_safety"
  /\ KeywordOccurrences(fn.arg) /= {}
  /\ \A o \in KeywordOccurrences(fn.arg) : InsideIdentifier(fn.arg, o[1], o[2])
  /\ \E i \in 1..Len(fn.arg) : fn.arg[i] = " "
  /\ fn.out.val.ok

\* C12: a lookup of the semantic cache is a hit only when the nearest stored question
\* is within the configured distance threshold, and is a miss whenever the nearest
\* stored question is farther than the threshold
C12_HitOnlyWithinThreshold ==
  LookedUp =>
    /\ fn.out /= None => sql_collection /= {} /\ NearestDistance(fn.arg) <= distance_threshold
    /\ sql_collection /= {} /\ NearestDistance(fn.arg) > distance_threshold => fn.out = None

\* a lookup whose nearest stored question is just beyond the threshold, a miss
C12_Witness ==
  /\ LookedUp
  /\ fn.result /= Raised
  /\ sql_collection /= {}
  /\ NearestDistance(fn.arg) = distance_threshold + 1
  /\ fn.out = None

\* C13: once a question has been trained with a non-empty SQL, a lookup of a question
\* with the same embedding whose query does not fail is a hit, and it carries an SQL
\* stored for a question at distance 0
C13_LookupAfterInsertHits ==
  LookedUp /\ fn.result /= Raised /\ StoredSqlAtZero(fn.arg) /= {} =>
    /\ fn.out /= None
    /\ fn.out.val \in StoredSqlAtZero(fn.arg)

\* qProje2 is looked up after qProje, a different text with the same embedding, was
\* trained next to a farther question; the hit carries the SQL trained with qProje
C13_Witness ==
  /\ LookedUp
  /\ fn.arg = qProje2
  /\ \E d \in sql_collection : d.question = qProje /\ StoredSqlAtZero(fn.arg) = {d.sql}
  /\ \E d \in sql_collection : Distance(fn.arg, d.question) > 0
  /\ fn.out = Some(CHOOSE x \in StoredSqlAtZero(fn.arg) : TRUE)

\* C14: when the vector backend fails during the cache lookup, the lookup counts as a
\* miss: nothing is reported as coming from the cache, the invocation that has ended
\* with its consumer still there has asked the generation collaborator for SQL, and
\* every error surfaced is that of the generation, never that of the lookup
C14_LookupFailureIsMiss ==
  \A i \in Requests :
    LookupFailed(i) /\ Pipeline(i) =>
      /\ \A c \in CallsOf(i, "sql_collection.query") :
           /\ c < Len(calls[i])
           /\ calls[i][c + 1] = Call("check_semantic_cache", calls[i][c].text, "miss")
      /\ ~CacheHit(i)
      /\ \A e \in 1..Len(events[i]) :
           "from_cache" \in DOMAIN events[i][e].body => ~events[i][e].body.from_cache
      /\ response[i] /= None /\ response[i].val.type = "sql" => ~response[i].val.from_cache
      /\ pc[i] = "idle" /\ ~Disconnected(i) => GenerationCalls(i) /= {}
      /\ errCacheLookup \notin SurfacedErrors(i)
      /\ shorten_error_message(errCacheLookup) \notin SurfacedErrors(i)
      /\ ErrorsHaveCause(i)

\* the lookup fails in generate_sql although an entry within the threshold is stored,
\* and the invocation ends with generated SQL that is not flagged as cached
C14_Witness ==
  \E i \in Requests :
    /\ LookupFailed(i)
    /\ req[i].endpoint = "generate_sql"
    /\ sql_collection /= {}
    /\ NearestDistance(process_question[i]) <= distance_threshold
    /\ pc[i] = "idle"
    /\ response[i] /= None
    /\ response[i].val.type = "sql"
    /\ ~response[i].val.from_cache

C16_ContextualizeBeforeLookup ==
  \A i \in Requests :
    Pipeline(i) /\ req[i].history /= <<>> =>
      \A l \in CallsOf(i, "check_semantic_cache") :
        /\ \E r \in ContextualizerReturns(i) : r < l
        /\ calls[i][l].text = ExpectedQuestion(i)

\* a streamed and a batched request, both with a history, have looked up the question
\* the contextualizer rewrote, which differs from the question asked
C16_Witness ==
  \E i, j \in Requests :
    /\ req[i].stream /\ ~req[j].stream
    /\ \A k \in {i, j} :
         /\ req[k].history /= <<>>
         /\ ExpectedQuestion(k) /= req[k].question
         /\ \E l \in CallsOf(k, "check_semantic_cache") : calls[k][l].text = ExpectedQuestion(k)

\* C17: the contextualizer is called only with a non-empty history; when its call
\* raises or returns empty or whitespace text the pipeline goes on with the original
\* question and surfaces no error for it, otherwise it goes on with the trimmed
\* rewritten question
C17_ContextualizerFallback ==
  \A i \in Requests :
    Pipeline(i) =>
      /\ ContextualizerCalls(i) /= {} => req[i].history /= <<>>
      /\ Cardinality(ContextualizerCalls(i)) <= 1
      /\ Cardinality(ContextualizerReturns(i)) = Cardinality(ContextualizerCalls(i))
      /\ \A g \in GenerationCalls(i) : calls[i][g].text = ExpectedQuestion(i)
      /\ \A r \in ContextualizerReturns(i) :
           /\ r < Len(calls[i])
           /\ calls[i][r + 1].op = "sql_collection.query"
           /\ calls[i][r + 1].text = ExpectedQuestion(i)
      /\ ErrorsHaveCause(i)

\* the contextualizer returned text with blanks around it, differing from the question
\* asked, and the SQL generation was called with the trimmed text
C17_Witness ==
  \E i \in Requests :
    /\ \E r \in ContextualizerReturns(i) :
         /\ calls[i][r].role = "ok"
         /\ strip(calls[i][r].text) /= <<>>
         /\ strip(calls[i][r].text) /= calls[i][r].text
         /\ strip(calls[i][r].text) /= req[i].question
    /\ \E g \in GenerationCalls(i) : calls[i][g].text = ExpectedQuestion(i)
    /\ pc[i] = "idle"

\* C18: a batched invocation that has ended returned a structured result of type sql,
\* clarification, error or df, also when the generation or the execution failed
C18_BatchedResultIsStructured ==
  \A i \in Requests :
    BatchedEnded(i) =>
      /\ response[i] /= None
      /\ response[i].val.type \in {"sql", "clarification", "error", "df"}

\* C19: a listing of a session for its owner holds the session's messages, up to the
\* listing's limit, in the order in which they were appended, whatever the appends to
\* other sessions and however quickly the appends followed each other
C19_ListingInSubmissionOrder ==
  fn.op = "get_session_messages" /\ get_session_by_id(fn.arg, fn.user_id) /= {} =>
    LET listing == fn.out.val
        mine == {i \in 1..Len(chat_messages) : chat_messages[i].session_id = fn.arg}
    IN /\ Len(listing) = Min({Cardinality(mine), default_limit})
       /\ \A k \in 1..Len(listing) :
            /\ listing[k].id \in mine
            /\ Cardinality({i \in mine : i < listing[k].id}) = k - 1

\* two messages of s1 appended within one second, with a message of s2 appended
\* between them, are listed for the owner of s1 in the order of their appends
C19_Witness ==
  /\ fn.op = "get_session_messages"
  /\ fn.arg = "s1"
  /\ fn.user_id = 1
  /\ Len(chat_messages) = 3
  /\ chat_messages[1].session_id = "s1"
  /\ chat_messages[2].session_id = "s2"
  /\ chat_messages[3].session_id = "s1"
  /\ chat_messages[1].created_at = chat_messages[3].created_at
  /\ Len(fn.out.val) = 2
  /\ fn.out.val[1].id = 1
  /\ fn.out.val[2].id = 3

\* C20: every step of every pipeline invocation leaves the messages already in the
\* transcript as they are, with their role, content, SQL, result and chart, and at
\* most appends to them: the transcript before the step is a prefix of the one after
C20_TranscriptOnlyGrows ==
  [][/\ Len(chat_messages') >= Len(chat_messages)
     /\ SubSeq(chat_messages', 1, Len(chat_messages)) = chat_messages]_vars

\* an invocation that began on a transcript holding the messages of an earlier one has
\* appended the user's message and its SQL message after them
C20_Witness ==
  \E i, j \in Requests :
    /\ i < j
    /\ Len(written[i]) = 2
    /\ Len(written[j]) = 2
    /\ written[j][1] > written[i][1]
    /\ pc[i] = "idle" /\ pc[j] = "idle"
    /\ InvocationMessages(i)[1].content = req[i].question
    /\ InvocationMessages(j)[1].content = req[j].question
    /\ InvocationMessages(j)[2].role = "assistant"

\* the rows of a listed or submitted result; a message without result has none
RowsOf(data) == IF data = None THEN << >> ELSE data.val

\* C21: the session read back by its owner after a result message was appended holds
\* that message, with min(n, 10) rows, the rows in the result's order and each row
\* with the result's columns in their order
C21_ResultRoundTrip ==
  fn.op = "get_session_messages" /\ get_session_by_id(fn.arg, fn.out.val.user_id) /= {} =>
    \E i \in 1..Len(fn.out.val.listing) :
      LET message == fn.out.val.listing[i]
          rows == RowsOf(message.data)
      IN /\ message.id = fn.id
         /\ Len(rows) = Min({Len(fn.df.rows), 10})
         /\ \A k \in 1..Len(rows) :
              /\ rows[k].row = fn.df.rows[k]
              /\ rows[k].columns = [c \in 1..Len(fn.df.columns) |-> fn.df.columns[c].name]

\* C22: once the consumer of a stream has left, the invocation sends nothing more and
\* calls nothing more, and what it had saved stays in the transcript: the user's
\* question first, and the SQL message when the metadata event had been sent
C22_DisconnectStopsEmission ==
  \A i \in Requests :
    Disconnected(i) =>
      \A d \in CallsOfDisconnect(calls[i]) :
        /\ events[i] = calls[i][d].text
        /\ d = Len(calls[i])
        /\ pc[i] = "idle"
        /\ EventsOf(i, "done") = {}
        /\ req[i].session_id /= None =>
             /\ Len(InvocationMessages(i)) = 1 + Cardinality(EventsOf(i, "metadata"))
             /\ InvocationMessages(i)[1].role = "user"
             /\ InvocationMessages(i)[1].content = req[i].question
             /\ \A m \in EventsOf(i, "metadata") :
                  /\ InvocationMessages(i)[2].role = "assistant"
                  /\ InvocationMessages(i)[2].sql_query = Some(full_sql[i])
                  /\ InvocationMessages(i)[2].content =
                       FullContent(events[i][m].body.explanation, full_sql[i])

\* the consumer left while tokens were streamed: a token had been sent, the stream held
\* more, no SQL message was saved, and the user's question is in the transcript while
\* a later request has been served
C22_Witness ==
  \E i, j \in Requests :
    /\ i < j
    /\ Disconnected(i)
    /\ EventsOf(i, "token") /= {}
    /\ EventsOf(i, "metadata") = {}
    /\ gen[i].tokens /= <<>>
    /\ Len(InvocationMessages(i)) = 1
    /\ pc[j] = "idle"
    /\ written[j] /= <<>>

\* C23: the translator returns a text on every input: when its delegate call fails,
\* the fixed prefix followed by the first 100 characters of the raw error; when the
\* delegate returns text that is not blank, that text trimmed
C23_TranslateNeverRaises ==
  fn.op = "generate_friendly_error" =>
    /\ fn.out /= None /\ fn.out /= Raised
    /\ fn.reply = None =>
         /\ Len(fn.out.val) = 1 + Min({100, Len(fn.arg)})
         /\ \A i \in 1..Min({100, Len(fn.arg)}) : fn.out.val[i + 1] = fn.arg[i]
    /\ fn.reply /= None /\ (\E i \in 1..Len(fn.reply.val) : fn.reply.val[i] \notin Whitespace) =>
         /\ fn.out.val /= <<>>
         /\ fn.out.val[1] \notin Whitespace
         /\ fn.out.val[Len(fn.out.val)] \notin Whitespace
         /\ \E lead, trail \in 0..Len(fn.reply.val) :
              fn.out.val = SubSeq(fn.reply.val, lead + 1, Len(fn.reply.val) - trail)

\* the delegate failed on a raw error of more than 100 characters
C23_Witness ==
  /\ fn.op = "generate_friendly_error"
  /\ fn.reply = None
  /\ Len(fn.arg) > 100
  /\ Len(fn.out.val) = 101

\* the raw texts of the collaborators' exceptions
RawErrorTexts == {errGeneration, errNoColumn}

\* C24: no error text surfaced to the user, in an error event or in an error result,
\* holds the raw text of a collaborator's exception
C24_NoRawErrorSurfaced ==
  \A i \in Requests :
    Pipeline(i) =>
      \A surfaced \in SurfacedErrors(i) : \A raw \in RawErrorTexts : ~Contains(surfaced, raw)

\* C25 as stated: within one invocation the SQL generation is called at most once, and
\* when it has failed an error event or an error result is surfaced by the time the
\* invocation ends
C25_GenerationFailureSurfacedOnce ==
  \A i \in Requests :
    Pipeline(i) =>
      /\ Cardinality(GenerationCalls(i)) <= 1
      /\ pc[i] = "idle" /\ GenerationFailed(i) =>
           \/ EventsOf(i, "error") /= {}
           \/ response[i] /= None /\ response[i].val.type = "error"

\* the result the chart functions were applied to
Charted == fn.op = "generate_plotly_chart"

\* the columns of the result that hold numbers
NumericColumnsOf(df) ==
  {k \in 1..Len(df.columns) : df.columns[k].dtype \in {"int64", "float64", "int32", "float32"}}

\* C26: the chart decision is false exactly for a result that is empty, or has more than
\* 100 rows, fewer than 2 rows, fewer than 2 columns, more than 5 columns, or no numeric
\* column, and true for every other result
C26_ShouldChartExactly ==
  Charted =>
    LET n_rows == Len(fn.df.rows)
        n_columns == Len(fn.df.columns)
    IN fn.should = ~ \/ n_rows = 0 \/ n_columns = 0
                     \/ n_rows > 100
                     \/ n_rows < 2
                     \/ n_columns < 2
                     \/ n_columns > 5
                     \/ NumericColumnsOf(fn.df) = {}

\* a result of 5 rows and 2 columns, one text and one numeric, is chart-worthy
C26_Witness ==
  /\ Charted
  /\ Len(fn.df.rows) = 5
  /\ Len(fn.df.columns) = 2
  /\ fn.df.columns[1].dtype = "object"
  /\ fn.df.columns[2].dtype = "int64"
  /\ fn.should

\* the word occurs in the SQL text, in any letter case, not as part of a longer identifier
HasWord(sql, word) ==
  \E i \in 1..Len(sql) :
    LET after == i + Len(word)
    IN /\ MatchAtCI(sql, i, word)
       /\ (i = 1 \/ ~IsWordChar(sql[i - 1]))
       /\ (after > Len(sql) \/ ~IsWordChar(sql[after]))

\* the SQL text aggregates: COUNT, SUM, AVG or AVERAGE occurs as a keyword
Aggregates(sql) == \E w \in AggregationWords : HasWord(sql, w)

\* the SQL text ranks: ORDER BY occurs, and so does a magnitude-like column name
Ranks(sql) ==
  /\ Contains(lower(sql), txt_order_by)
  /\ \E w \in RankingWords \ {<<"d","e","s","c">>} : Contains(lower(sql), w)

\* a chart was built for a chart-worthy result with this many numeric columns
ChartBuilt(numeric) ==
  /\ Charted
  /\ fn.should
  /\ fn.out /= None
  /\ Cardinality(NumericColumnsOf(fn.df)) \in numeric

\* C27: for a chart-worthy result with exactly one numeric column the chart is a
\* horizontal bar when the SQL ranks (ORDER BY plus a magnitude-like column name) and
\* does not aggregate, a bar when it aggregates and does not rank, either of the two when
\* it does both, and a bar when it does neither
C27_SingleSeriesKind ==
  ChartBuilt({1}) =>
    LET kind == fn.out.val.chart_type
    IN /\ kind \in {"bar", "horizontal_bar"}
       /\ Ranks(fn.arg) /\ ~Aggregates(fn.arg) => kind = "horizontal_bar"
       /\ ~Ranks(fn.arg) => kind = "bar"

\* the column looks date/time-like: by its dtype, or by a date word in its name
DateLike(column) ==
  \/ column.dtype = "datetime64"
  \/ \E w \in DateWords : Contains(lower(column.name), w)

\* the names of the first n numeric columns of the result, in column order
FirstNumericNames(df, n) ==
  LET numeric == NumericColumnsOf(df)
      first == {k \in numeric : Cardinality({j \in numeric : j < k}) < n}
  IN [i \in 1..Cardinality(first) |->
        df.columns[CHOOSE k \in first : Cardinality({j \in first : j < k}) = i - 1].name]

\* C28: for a chart-worthy result with two or more numeric columns the chart is a line
\* chart when the first column looks date/time-like and a grouped bar otherwise, and its
\* series are the first three numeric columns in column order
C28_MultiSeriesKind ==
  ChartBuilt(2..6) =>
    /\ fn.out.val.chart_type = (IF DateLike(fn.df.columns[1]) THEN "line" ELSE "grouped_bar")
    /\ fn.out.val.series = FirstNumericNames(fn.df, 3)
    /\ Len(fn.out.val.series) \in 1..3

\* a fenced block tagged sql opens at i, and raw[a..b] is what it holds: the tag, blanks
\* up to the last line break they reach, the content, the first closing fence
IsFencedBlock(raw, i, a, b) ==
  /\ MatchAtCI(raw, i, txtFenceSql)
  /\ i + 6 <= a - 1 /\ a - 1 <= Len(raw)
  /\ raw[a - 1] = "\n"
  /\ \A k \in (i + 6)..(a - 2) : raw[k] \in Whitespace
  /\ \A j \in a..Len(raw) : raw[j] = "\n" => \E k \in a..(j - 1) : raw[k] \notin Whitespace
  /\ a - 1 <= b /\ MatchAtCI(raw, b + 1, txtFence)
  /\ \A k \in a..b : ~MatchAtCI(raw, k, txtFence)

\* raw[i..k] starts at the word SELECT, in any letter case, and ends at the first
\* semicolon after it
IsSelectStatement(raw, i, k) ==
  /\ MatchAtCI(raw, i, txtSELECT)
  /\ (i = 1 \/ ~IsWordChar(raw[i - 1]))
  /\ (i + 6 > Len(raw) \/ ~IsWordChar(raw[i + 6]))
  /\ i + 6 <= k /\ k <= Len(raw)
  /\ raw[k] = ";"
  /\ \A j \in (i + 6)..(k - 1) : raw[j] /= ";"

\* the texts the sources (b), (c) and (d) give for a raw response, leftmost match only
FencedTexts(raw) ==
  {strip(SubSeq(raw, a, b)) : <<i, a, b>> \in
     {w \in (1..Len(raw)) \X (1..(Len(raw) + 1)) \X (0..Len(raw)) :
        /\ IsFencedBlock(raw, w[1], w[2], w[3])
        /\ \A v \in (1..(w[1] - 1)) \X (1..(Len(raw) + 1)) \X (0..Len(raw)) :
              ~IsFencedBlock(raw, v[1], v[2], v[3])}}

SelectTexts(raw) ==
  {strip(SubSeq(raw, i, k)) : <<i, k>> \in
     {w \in (1..Len(raw)) \X (1..Len(raw)) :
        /\ IsSelectStatement(raw, w[1], w[2])
        /\ \A v \in (1..(w[1] - 1)) \X (1..Len(raw)) : ~IsSelectStatement(raw, v[1], v[2])}}

\* C30: the extraction returns what the collaborator's extract_sql returned when the
\* collaborator has one; otherwise the content of the first fenced block tagged sql;
\* otherwise the text from the first SELECT to the first semicolon after it; otherwise
\* the trimmed raw text: one text in every case
C30_ExtractOrder ==
  fn.op = "extract_sql" =>
    IF fn.has_extract_sql THEN fn.out = fn.extracted
    ELSE IF FencedTexts(fn.arg) /= {} THEN FencedTexts(fn.arg) = {fn.out.val}
    ELSE IF SelectTexts(fn.arg) /= {} THEN SelectTexts(fn.arg) = {fn.out.val}
    ELSE fn.out = Some(strip(fn.arg))

\* a response with a statement before its fenced block: the block's content is taken
C30_Witness ==
  /\ fn.op = "extract_sql"
  /\ ~fn.has_extract_sql
  /\ FencedTexts(fn.arg) /= {}
  /\ SelectTexts(fn.arg) /= {}
  /\ SelectTexts(fn.arg) /= FencedTexts(fn.arg)
  /\ fn.out = Some(sqlSelect)

\* clear_cache has returned, reporting success
ClearSucceeded ==
  /\ fn.op = "clear_cache"
  /\ fn.out.val.success

\* C31: when clear_cache reports success the collection held no document at its return,
\* and the count it reports is the number of documents it removed
C31_ClearEmptiesStore ==
  ClearSucceeded =>
    /\ fn.remaining = {}
    /\ fn.out.val.deleted_count = fn.removed

\* the messages of a session that are in the message store
MessagesOfSession(session_id) ==
  {m \in 1..Len(chat_messages) : chat_messages[m].session_id = session_id}

\* C32: after a delete_session that succeeded the session does not exist and none of
\* its messages is left in the message store; a delete that failed changed nothing
C32_DeleteCascades ==
  fn.op = "delete_session" =>
    /\ fn.out => /\ \A r \in chat_sessions : r.id /= fn.arg
                 /\ MessagesOfSession(fn.arg) = {}
    /\ ~fn.out => ~fn.changed

\* C35: every message a request has appended went to a session that the request's
\* authenticated user owns
C35_OnlyOwnerAppends ==
  \A i \in Requests :
    req[i].endpoint \in {"send_message", "generate_sql", "run_sql"} =>
      \A m \in 1..Len(InvocationMessages(i)) :
        get_session_by_id(InvocationMessages(i)[m].session_id, req[i].user_id) /= {}

\* the tasks that are scanning
Scanning == {t \in 1..MaxScans : fn.task[t] = "scanning"}

\* C36: at most one scan is in progress, a task that finds a scan running returns
\* "already in progress" without scanning, and the flag is set exactly while a scan is
\* in progress
C36_OneScanAtATime ==
  /\ Cardinality(Scanning) <= 1
  /\ fn.is_running <=> Scanning /= {}

\* the similarity of two questions, in hundredths: 100 for the same embedding, falling
\* with the distance
Similarity(q1, q2) == 100 - Distance(q1, q2)

\* C37: the legacy lookup returns cached SQL only when the nearest stored question is
\* at least similarity_threshold similar to the asked question
C37_LegacyHitOnlyWhenSimilar ==
  fn.op = "legacy_check_semantic_cache" /\ fn.out /= None =>
    \E d \in sql_collection :
      /\ \A e \in sql_collection : Similarity(fn.arg, d.question) >= Similarity(fn.arg, e.question)
      /\ Similarity(fn.arg, d.question) >= similarity_threshold

-----------------------------------------------------------------------------
(* Batched generate_sql: clarification against SQL *)

\* the text, comments removed and trimmed, begins with a statement keyword
BeginsWithKeyword(text) ==
  \E k \in 1..Len(sql_keywords) : StartsWith(strip(RemoveComments(upper(text))), sql_keywords[k])

\* the step of the batched path in which vn.generate_sql returned a text to request i
BatchedGenerated(i) ==
  /\ i \in Requests
  /\ pc[i] = "gs_standard"
  /\ pc'[i] = "idle"
  /\ response'[i].val.type /= "error"

\* C39: in batched generate_sql a generated text that does not begin, comments removed
\* and trimmed, with a statement keyword gives a clarification with one to three
\* suggestions, no persisted assistant message and no sql_cache entry; any other
\* generated text gives type sql, and exactly one assistant message carrying that SQL
\* is persisted when a session id was given (none without a session id)
C39_ClarificationOrSql ==
  [][\A i \in 1..MaxRequests :
       BatchedGenerated(i) =>
         IF ~BeginsWithKeyword(raw_sql_response'[i])
           THEN /\ response'[i].val.type = "clarification"
                /\ Len(response'[i].val.suggestions) \in 1..3
                /\ chat_messages' = chat_messages
                /\ sql_cache' = sql_cache
           ELSE /\ response'[i].val.type = "sql"
                /\ response'[i].val.text = strip(raw_sql_response'[i])
                /\ IF req[i].session_id = None THEN chat_messages' = chat_messages
                   ELSE /\ Len(chat_messages') = Len(chat_messages) + 1
                        /\ SubSeq(chat_messages', 1, Len(chat_messages)) = chat_messages
                        /\ chat_messages'[Len(chat_messages')].role = "assistant"
                        /\ chat_messages'[Len(chat_messages')].session_id = req[i].session_id.val
                        /\ chat_messages'[Len(chat_messages')].sql_query =
                             Some(response'[i].val.text)]_vars

C39_Witness ==
  \E i \in Requests :
    /\ pc[i] = "idle"
    /\ req[i].endpoint = "generate_sql"
    /\ ~req[i].stream
    /\ req[i].session_id /= None
    /\ response[i] /= None
    /\ response[i].val.type = "clarification"
    /\ ~BeginsWithKeyword(raw_sql_response[i])
    /\ raw_sql_response[i] /= <<>>
    /\ \A m \in 1..Len(InvocationMessages(i)) : InvocationMessages(i)[m].role = "user"

====
